---- MODULE Spec2Model ----
(***************************************************************************)
(* Model of the acls/migrate migration engine: the Migrator orchestration  *)
(* (migrate/migrate.go), the resolution functions of file/file.go, the     *)
(* pgx driver's version table (driver/pgx/postgres.go) and the schema      *)
(* rotation of driver/pgx/schema_migrator.go.                              *)
(*                                                                         *)
(* The pipe package (New, Close, WaitAndRedirect, ReadErrors) is not part  *)
(* of the sources at hand; its behaviour is taken from the design          *)
(* document, section 4.4: WaitAndRedirect forwards the items of the        *)
(* sub-operation's channel to the output channel until that channel is     *)
(* closed, stops forwarding once a cancellation was observed, and reports  *)
(* ok only when no error item was forwarded and no cancellation observed.  *)
(***************************************************************************)
EXTENDS Integers, Sequences, FiniteSets, TLC

\* ------------------------------------------------------------------------
\* Bounds of the model
\* ------------------------------------------------------------------------
MaxFiles == 4

MaxMajor == 1

MaxN == 2

NULL == <<>>

\* ------------------------------------------------------------------------
\* Version model (file/file.go)
\* ------------------------------------------------------------------------
Major(v) == v[1]

Minor(v) == v[2]

\* NewVersion2: the major part is forced to 0 in legacy mode
NewVersion2(isV2, major, minor) == IF isV2 THEN <<major, minor>> ELSE <<0, minor>>

ZeroVersion == <<0, 0>>

Inc(v, major) == IF major THEN <<v[1] + 1, 1>> ELSE <<v[1], v[2] + 1>>

Compare(v, other) ==
  IF v[1] < other[1] \/ (v[1] = other[1] /\ v[2] < other[2]) THEN -1
  ELSE IF v[1] > other[1] \/ (v[1] = other[1] /\ v[2] > other[2]) THEN 1
  ELSE 0

\* ------------------------------------------------------------------------
\* Sequences helpers
\* ------------------------------------------------------------------------
Range(s) == {s[i] : i \in 1..Len(s)}

Reverse(s) == [i \in 1..Len(s) |-> s[Len(s) + 1 - i]]

\* the longest prefix of s whose elements satisfy Test
SelectWhile(s, Test(_)) ==
  LET k == CHOOSE n \in 0..Len(s) :
             /\ \A i \in 1..n : Test(s[i])
             /\ (n = Len(s) \/ ~Test(s[n + 1]))
  IN SubSeq(s, 1, k)

\* sort.Sort(mf): ascending by Version (Less is Compare < 0); the versions of
\* a collection are distinct, so the result does not depend on the algorithm
RECURSIVE SortAsc(_)
SortAsc(s) ==
  IF s = <<>> THEN <<>>
  ELSE LET m == CHOOSE i \in 1..Len(s) :
                  \A j \in 1..Len(s) : Compare(s[i].ver, s[j].ver) <= 0
       IN <<s[m]>> \o SortAsc(SubSeq(s, 1, m - 1) \o SubSeq(s, m + 1, Len(s)))

\* a reverse sort that sorts ascending
SortDescAscending(s) == SortAsc(s)

\* sort.Sort(sort.Reverse(mf))
SortDesc(s) == Reverse(SortAsc(s))

\* ------------------------------------------------------------------------
\* MigrationFile / Migration (file/file.go)
\*   a MigrationFile is [ver, up, src]: its Version, the content of its Up
\*   file and where the pair was read from ("disk" or "db")
\*   a Migration is [ver, dir, up, src]
\* ------------------------------------------------------------------------
Migration(mf, d) == [ver |-> mf.ver, dir |-> d, up |-> mf.up, src |-> mf.src]

\* the direction test inverted
IsUpInverted(m) == m.dir = "down"

IsUp(m) == m.dir # "down"

LastVersion(mf) == IF Len(mf) > 0 THEN mf[Len(mf)].ver ELSE ZeroVersion

\* MissingVersion: NULL when the collection is contiguous
RECURSIVE MissingFrom(_, _, _, _)
MissingFrom(isV2, mf, i, expected) ==
  IF i > Len(mf) THEN NULL
  ELSE IF Compare(mf[i].ver, expected) # 0
       THEN LET e2 == IF isV2 /\ i # 1 THEN Inc(expected, TRUE) ELSE expected
            IN IF Compare(mf[i].ver, e2) # 0 THEN e2
               ELSE MissingFrom(isV2, mf, i + 1, Inc(e2, FALSE))
       ELSE MissingFrom(isV2, mf, i + 1, Inc(expected, FALSE))

\* a MissingVersion that never expects the next major
MissingVersionSameMajor(isV2, mf) ==
  IF Len(mf) = 0 THEN NULL ELSE MissingFrom(FALSE, mf, 1, NewVersion2(isV2, 0, 1))

MissingVersion(isV2, mf) ==
  IF Len(mf) = 0 THEN NULL ELSE MissingFrom(isV2, mf, 1, NewVersion2(isV2, 0, 1))

\* the UpFile of a MigrationFile that was built from a down file only: nil
NoUpFile == "<nil>"

\* ValidateBaseFiles: "ok" or the kind of the error; file.UpFile.ReadContent()
\* on a nil UpFile dereferences nil
RECURSIVE ValidatePos(_, _, _)
ValidatePos(mf, prev, i) ==
  IF i > Len(prev) THEN "ok"
  ELSE IF Compare(prev[i].ver, mf[i].ver) # 0 THEN "version"
  ELSE IF mf[i].up = NoUpFile THEN "panic"
  ELSE IF prev[i].up # mf[i].up THEN "content"
  ELSE ValidatePos(mf, prev, i + 1)

\* a validation that does not compare the files with the recorded ones
ValidateBaseFilesLengthOnly(isV2, mf, prev) ==
  IF Len(mf) < Len(prev) THEN "length" ELSE "ok"

ValidateBaseFiles(isV2, mf, prev) ==
  IF Len(mf) < Len(prev) THEN "length"
  ELSE IF MissingVersion(isV2, mf) # NULL THEN "missing"
  ELSE ValidatePos(mf, prev, 1)

\* The resolution functions sort their receiver in place (the slice shares
\* its backing array with the caller's): each returns the plan and the
\* receiver as it is left.
\* a DownTo that also undoes the destination Version
DownToInclusive(mf, dstVersion) ==
  LET s == SortDesc(mf)
      Above(f) == Compare(f.ver, dstVersion) >= 0
      sel == SelectWhile(s, Above)
  IN [plan |-> [i \in 1..Len(sel) |-> Migration(sel[i], "down")], recv |-> s]

DownTo(mf, dstVersion) ==
  LET s == SortDesc(mf)
      Above(f) == Compare(f.ver, dstVersion) > 0
      sel == SelectWhile(s, Above)
  IN [plan |-> [i \in 1..Len(sel) |-> Migration(sel[i], "down")], recv |-> s]

\* a ToFirstFrom that leaves out the Version itself
ToFirstFromExclusive(mf, version) ==
  LET s == SortDesc(mf)
      Below(f) == Compare(f.ver, version) < 0
      sel == SelectSeq(s, Below)
  IN [plan |-> [i \in 1..Len(sel) |-> Migration(sel[i], "down")], recv |-> s]

ToFirstFrom(mf, version) ==
  LET s == SortDesc(mf)
      NotAbove(f) == Compare(f.ver, version) <= 0
      sel == SelectSeq(s, NotAbove)
  IN [plan |-> [i \in 1..Len(sel) |-> Migration(sel[i], "down")], recv |-> s]

ToLastFrom(mf, version) ==
  LET s == SortAsc(mf)
      Above(f) == Compare(f.ver, version) > 0
      sel == SelectSeq(s, Above)
  IN [plan |-> [i \in 1..Len(sel) |-> Migration(sel[i], "up")], recv |-> s]

FromTo(mf, startVersion, stopVersion) ==
  IF Compare(startVersion, stopVersion) = 0 THEN [plan |-> <<>>, recv |-> mf]
  ELSE LET down == Compare(startVersion, stopVersion) > 0
           lo == IF down THEN stopVersion ELSE startVersion
           hi == IF down THEN startVersion ELSE stopVersion
           s == SortAsc(mf)
           Skip(f) == Compare(f.ver, lo) > 0
           NotPast(f) == Compare(f.ver, hi) <= 0
           sel == SelectWhile(SelectSeq(s, Skip), NotPast)
           ms == [i \in 1..Len(sel) |-> Migration(sel[i], IF down THEN "down" ELSE "up")]
           \* the loop returns at the first file past the stop version,
           \* before the reversal that follows the loop
           past == \E i \in 1..Len(s) : ~NotPast(s[i])
       IN [plan |-> IF down /\ ~past THEN SortDesc(ms) ELSE ms, recv |-> s]

\* a From that does not count the migrations it collects
FromUncounted(mf, version, relativeN) ==
  IF relativeN = 0 THEN [plan |-> <<>>, recv |-> mf]
  ELSE LET up == relativeN > 0
           s == IF up THEN SortAsc(mf) ELSE SortDesc(mf)
           Wanted(f) == IF up THEN Compare(f.ver, version) > 0
                        ELSE Compare(f.ver, version) <= 0
           sel == SelectSeq(s, Wanted)
       IN [plan |-> [i \in 1..Len(sel) |-> Migration(sel[i], IF up THEN "up" ELSE "down")],
           recv |-> s]

From(mf, version, relativeN) ==
  IF relativeN = 0 THEN [plan |-> <<>>, recv |-> mf]
  ELSE LET up == relativeN > 0
           s == IF up THEN SortAsc(mf) ELSE SortDesc(mf)
           counter == IF relativeN < 0 THEN relativeN * (-1) ELSE relativeN
           Wanted(f) == IF up THEN Compare(f.ver, version) > 0
                        ELSE Compare(f.ver, version) <= 0
           sel == SelectSeq(s, Wanted)
           n == IF Len(sel) < counter THEN Len(sel) ELSE counter
       IN [plan |-> [i \in 1..n |-> Migration(sel[i], IF up THEN "up" ELSE "down")],
           recv |-> s]

\* Between: [err, cur, dst, plan, recv, prev]
\* a Between that validates whatever force says
BetweenIgnoresForce(isV2, mf, prevFiles, force) ==
  IF Len(mf) = 0
  THEN [err |-> "nofiles", cur |-> ZeroVersion, dst |-> ZeroVersion, plan |-> <<>>,
        recv |-> mf, prev |-> prevFiles]
  ELSE LET s == SortAsc(mf)
           cur == LastVersion(prevFiles)
           dst == LastVersion(s)
       IN IF Compare(cur, dst) <= 0
          THEN LET v == ValidateBaseFiles(isV2, s, prevFiles)
               IN IF v # "ok"
                  THEN [err |-> v, cur |-> cur, dst |-> dst, plan |-> <<>>,
                        recv |-> s, prev |-> prevFiles]
                  ELSE [err |-> "ok", cur |-> cur, dst |-> dst,
                        plan |-> ToLastFrom(s, cur).plan, recv |-> s, prev |-> prevFiles]
          ELSE [err |-> "ok", cur |-> cur, dst |-> dst,
                plan |-> DownTo(prevFiles, dst).plan, recv |-> s,
                prev |-> DownTo(prevFiles, dst).recv]

Between(isV2, mf, prevFiles, force) ==
  IF Len(mf) = 0
  THEN [err |-> "nofiles", cur |-> NULL, dst |-> NULL, plan |-> <<>>,
        recv |-> mf, prev |-> prevFiles]
  ELSE LET s == SortAsc(mf)
           cur == LastVersion(prevFiles)
           dst == LastVersion(s)
       IN IF Compare(cur, dst) <= 0
          THEN LET v == IF force THEN "ok" ELSE ValidateBaseFiles(isV2, s, prevFiles)
               IN IF v # "ok"
                  THEN [err |-> v, cur |-> cur, dst |-> dst, plan |-> <<>>,
                        recv |-> s, prev |-> prevFiles]
                  ELSE [err |-> "ok", cur |-> cur, dst |-> dst,
                        plan |-> ToLastFrom(s, cur).plan, recv |-> s, prev |-> prevFiles]
          ELSE [err |-> "ok", cur |-> cur, dst |-> dst,
                plan |-> DownTo(prevFiles, dst).plan, recv |-> s,
                prev |-> DownTo(prevFiles, dst).recv]


\* ------------------------------------------------------------------------
\* State
\* ------------------------------------------------------------------------
VARIABLES
  V2,          \* file.V2: versioned mode
  TxPerFile,   \* Migrator.TxPerFile
  Interrupts,  \* Migrator.Interrupts
  Force,       \* Migrator.Force
  disk,        \* the migration files under Migrator.Path, as ReadMigrationFiles returns them
  openers,     \* the file names found under Migrator.Path, in the order DirReader.Files lists them
  rows,        \* the committed rows of the version table: [ver, up, prev], ascending
  txRows,      \* the rows as seen inside the transaction in progress, NULL when none
  op,          \* the operation being run: [name, n, dst]
  half,        \* 0: plain operation, 1: first (forwarded) phase of a chained one, 2: second phase
  pc,          \* position of the operation's task
  prevFiles,   \* migrateFiles' prevFiles
  files,       \* migrateFiles' files, in their current order
  plan,        \* applyMigrations
  idx,         \* index of the plan loop / of the updateFiles loop
  stopAt,      \* updateFiles' stopAt
  tx,          \* migrateFiles' tx: "nil", "open", or "ended" (handle of a finished transaction)
  prevVersion, \* migrateFiles' prevVersion, NULL while it is the nil interface
  retErr,      \* the error handed to pipe.Close: "nil" or "err"; the error a resolution function returned
  sub,         \* the driver sub-operation in flight: "none", "start", "sent", "closed"
  wErr,        \* inner WaitAndRedirect: an error item was received
  wInt,        \* inner WaitAndRedirect: a cancellation was observed
  oErr,        \* outer WaitAndRedirect (Redo, Reset, Restore, Dump): error item received
  oInt,        \* outer WaitAndRedirect: a cancellation was observed
  outItems,    \* the items delivered on the operation's output channel
  outClosed,   \* how many times the output channel was closed
  lateSend,    \* an item was sent on the output channel after its close
  txlog,       \* every transaction begun: [kind, migs, status]
  calls,       \* every driver Migrate call: [ver, dir, res, half]
  startRows,   \* the committed rows when the operation started
  upStarted,   \* the second phase of a chained operation was started
  schemas,     \* schema rotation: name -> schema identity (0: no such schema)
  rot,         \* schema rotation: [pc, slots, i, pre, tx, failAt, err]
  sync         \* MigrateBetweenSync / MigrateToSync: [worker, res, cur, dst, reader, ret]

cfgVars == <<V2, TxPerFile, Interrupts, Force, disk, openers>>

dbVars == <<rows, txRows>>

mfVars == <<prevFiles, files, plan, idx, stopAt, tx, prevVersion, retErr>>

waitVars == <<sub, wErr, wInt, oErr, oInt>>

pipeVars == <<outItems, outClosed, lateSend>>

histVars == <<txlog, calls, startRows, upStarted>>

rotVars == <<schemas, rot>>

vars == <<cfgVars, dbVars, op, half, pc, mfVars, waitVars, pipeVars, histVars, rotVars, sync>>

\* ------------------------------------------------------------------------
\* The pgx driver's version table (driver/pgx/postgres.go)
\* ------------------------------------------------------------------------
\* Version: the highest recorded version, the zero Version when none
DriverVersion(rs) ==
  IF Len(rs) = 0 THEN ZeroVersion
  ELSE LET m == CHOOSE i \in 1..Len(rs) :
                  \A j \in 1..Len(rs) : Compare(rs[i].ver, rs[j].ver) >= 0
       IN rs[m].ver

\* GetMigrationFiles: one MigrationFile per row, ORDER BY major, minor
GetMigrationFiles(rs) ==
  LET s == SortAsc(rs)
  IN [i \in 1..Len(s) |-> [ver |-> s[i].ver, up |-> s[i].up, src |-> "db"]]

HasRow(rs, v) == \E i \in 1..Len(rs) : rs[i].ver = v

\* migrateV1 / migrateV2: [ok, rows]. The INSERT fails on the primary key
\* (the version is recorded) and, in versioned mode, on the foreign key (the
\* previous version is neither recorded nor the version itself); the DELETE
\* fails on the foreign key (another row refers to the version)
DriverRecord(isV2, rs, m) ==
  IF IsUp(m)
  THEN LET first == Major(m.ver) = 0 /\ Minor(m.ver) <= 1
           pv == IF isV2 /\ ~first THEN DriverVersion(rs) ELSE m.ver
           chainOk == ~isV2 \/ first
                      \/ Compare(Inc(pv, Major(pv) # Major(m.ver)), m.ver) = 0
           fkOk == ~isV2 \/ pv = m.ver \/ HasRow(rs, pv)
       IN IF ~chainOk \/ HasRow(rs, m.ver) \/ ~fkOk
          THEN [ok |-> FALSE, rows |-> rs]
          ELSE [ok |-> TRUE,
                rows |-> SortAsc(Append(rs, [ver |-> m.ver, up |-> m.up,
                                             prev |-> IF isV2 THEN pv ELSE NULL]))]
  ELSE LET referenced == isV2 /\ \E i \in 1..Len(rs) :
                                    rs[i].prev = m.ver /\ rs[i].ver # m.ver
           Keep(r) == r.ver # m.ver
       IN IF referenced THEN [ok |-> FALSE, rows |-> rs]
          ELSE [ok |-> TRUE, rows |-> SelectSeq(rs, Keep)]

\* UpdateFiles: store the on-disk content in the row of the file's version
DriverUpdateFiles(rs, f) ==
  [i \in 1..Len(rs) |-> IF rs[i].ver = f.ver THEN [rs[i] EXCEPT !.up = f.up] ELSE rs[i]]


\* ------------------------------------------------------------------------
\* The scenarios an operation starts from
\* ------------------------------------------------------------------------
\* the contiguous version chains of length n: 0/1 first, then the next minor
\* or (versioned mode only) minor 1 of the next major
RECURSIVE ChainsOf(_, _)
ChainsOf(isV2, n) ==
  IF n = 0 THEN {<<>>}
  ELSE IF n = 1 THEN {<<NewVersion2(isV2, 0, 1)>>}
  ELSE {Append(c, Inc(c[n - 1], b)) :
          c \in ChainsOf(isV2, n - 1),
          b \in (IF isV2 THEN BOOLEAN ELSE {FALSE})}

Chains(isV2) ==
  {c \in UNION {ChainsOf(isV2, n) : n \in 0..MaxFiles} :
     \A i \in 1..Len(c) : Major(c[i]) <= MaxMajor}

\* the files of a chain as they are on disk (content "a")
DiskOf(c) == [i \in 1..Len(c) |-> [ver |-> c[i], up |-> "a", src |-> "disk"]]

\* the rows recorded by applying the first k versions of a chain
RowsOf(isV2, c, k) ==
  [i \in 1..k |-> [ver |-> c[i], up |-> "a",
                   prev |-> IF ~isV2 THEN NULL ELSE IF i = 1 THEN c[1] ELSE c[i - 1]]]

RemoveAt(s, g) == SubSeq(s, 1, g - 1) \o SubSeq(s, g + 1, Len(s))

\* <<disk, rows>>: on-disk files and recorded rows
Scenarios(isV2) ==
  UNION {
    \* the first k versions of the chain are applied, the files are unchanged
    {<<DiskOf(c), RowsOf(isV2, c, k)>> : k \in 0..Len(c)}
    \* the database is ahead of the files: the last files were removed
    \cup {<<DiskOf(SubSeq(c, 1, nd)), RowsOf(isV2, c, Len(c))>> : nd \in 0..(Len(c) - 1)}
    \* ... and the content of the first recorded Up file differs
    \cup {<<DiskOf(SubSeq(c, 1, nd)), [RowsOf(isV2, c, Len(c)) EXCEPT ![1].up = "b"]>> :
            nd \in 1..(Len(c) - 1)}
    \* a file that is not the last one was removed after k versions were applied
    \cup {<<RemoveAt(DiskOf(c), g), RowsOf(isV2, c, k)>> :
            g \in 1..(Len(c) - 1), k \in {0, Len(c)}}
    \* the content of a recorded Up file differs from the file on disk
    \cup {<<DiskOf(c), [RowsOf(isV2, c, pk[2]) EXCEPT ![pk[1]].up = "b"]>> :
            pk \in {q \in (1..Len(c)) \X (1..Len(c)) : q[1] <= q[2]}}
    \* the first recorded Up file has no content (rows written before the
    \* table stored the file contents)
    \cup {<<DiskOf(c), [RowsOf(isV2, c, k) EXCEPT ![1].up = ""]>> : k \in 1..Len(c)}
    : c \in Chains(isV2)}

NoOp == [name |-> "none", n |-> 0, dst |-> ZeroVersion]

\* the Sync call before its worker has assigned anything: nil Versions
NoSync ==
  [worker |-> "off", res |-> NULL, cur |-> NULL, dst |-> NULL, reader |-> "off", ret |-> NULL]

\* n, ok: the rotations and the successful rotations that went before;
\* first: the schemas before the first of them
NoRot ==
  [pc |-> "off", slots |-> <<>>, i |-> 0, pre |-> <<>>, tx |-> "nil", err |-> FALSE,
   n |-> 0, ok |-> 0, first |-> <<>>]

Init ==
  /\ V2 \in BOOLEAN
  /\ TxPerFile \in BOOLEAN
  /\ Interrupts \in BOOLEAN
  /\ Force \in BOOLEAN
  /\ \E sc \in Scenarios(V2) : disk = sc[1] /\ rows = sc[2]
  /\ openers = <<>>
  /\ txRows = NULL
  /\ op = NoOp
  /\ half = 0
  /\ pc = "idle"
  /\ prevFiles = <<>>
  /\ files = <<>>
  /\ plan = <<>>
  /\ idx = 0
  /\ stopAt = ZeroVersion
  /\ tx = "nil"
  /\ prevVersion = NULL
  /\ retErr = "nil"
  /\ sub = "none"
  /\ wErr = FALSE
  /\ wInt = FALSE
  /\ oErr = FALSE
  /\ oInt = FALSE
  /\ outItems = <<>>
  /\ outClosed = 0
  /\ lateSend = FALSE
  /\ txlog = <<>>
  /\ calls = <<>>
  /\ startRows = rows
  /\ upStarted = FALSE
  /\ schemas = <<>>
  /\ rot = NoRot
  /\ sync = NoSync

\* ------------------------------------------------------------------------
\* Channels (pipe package, modelled from the design document)
\* ------------------------------------------------------------------------
\* The operation's task sends the items ks on its channel. In the forwarded
\* phase of a chained operation (half 1 and 3) that channel is the inner one
\* and the outer WaitAndRedirect forwards the items to the output channel
\* until it has observed a cancellation.
Deliver(ks) ==
  LET forwarded == half \in {1, 3}
      dropped == forwarded /\ oInt
  IN /\ outItems' = IF dropped THEN outItems ELSE outItems \o ks
     /\ oErr' = (oErr \/ (forwarded /\ \E i \in 1..Len(ks) : ks[i] = "err"))
     /\ lateSend' = (lateSend \/ (ks # <<>> /\ ~dropped /\ outClosed > 0))

\* the inner WaitAndRedirect of migrateFiles forwards the driver's items
\* until it has observed a cancellation
Forward(ks) == Deliver(IF wInt THEN <<>> ELSE ks)

\* ------------------------------------------------------------------------
\* Migrator.init
\* ------------------------------------------------------------------------
Min(a, b) == IF a < b THEN a ELSE b

\* [prev, files, panic, err]
MigratorInit(validate) ==
  LET pf == GetMigrationFiles(rows)
      l == Min(Len(pf), Len(disk))
  IN [prev |-> pf,
      files |-> disk,
      panic |-> Compare(LastVersion(pf), DriverVersion(rows)) # 0,
      err |-> IF validate /\ ~Force
              THEN ValidateBaseFiles(V2, disk, SubSeq(pf, 1, l))
              ELSE "ok"]

\* a MigrateFiles that reports an error whatever migrateFiles returned
ReturnAlwaysError(e) ==
  /\ pc' = "ret"
  /\ retErr' = "err"

\* migrateFiles has returned e: MigrateFiles starts pipe.Close(pipe, e)
Return(e) ==
  /\ pc' = "ret"
  /\ retErr' = e

\* init and plan resolution of an operation; fail: a driver or file-system
\* call of init returned an error; Res(prev, files) resolves the plan
Enter(fail, validate, Res(_, _)) ==
  \E ir \in {MigratorInit(validate)} : \E r \in {Res(ir.prev, ir.files)} :
     /\ IF fail
        THEN Return("err") /\ UNCHANGED <<prevFiles, files, plan>>
        ELSE IF ir.panic
        THEN pc' = "panic" /\ UNCHANGED <<retErr, prevFiles, files, plan>>
        ELSE IF ir.err # "ok"
        THEN Return("err") /\ UNCHANGED <<prevFiles, files, plan>>
        ELSE IF r.err # "ok"
        THEN Return("err") /\ UNCHANGED <<prevFiles, files, plan>>
        ELSE /\ pc' = "mf"
             /\ prevFiles' = r.prev
             /\ files' = r.recv
             /\ plan' = r.plan
             /\ UNCHANGED retErr
     /\ idx' = 0
     /\ tx' = "nil"
     /\ prevVersion' = NULL
     /\ UNCHANGED <<stopAt, cfgVars, dbVars, waitVars, pipeVars, txlog, calls, rotVars>>

ResUp(prev, fs) ==
  LET r == ToLastFrom(fs, LastVersion(prev))
  IN [err |-> "ok", plan |-> r.plan, recv |-> r.recv, prev |-> prev]

ResDown(prev, fs) ==
  LET r == ToFirstFrom(fs, LastVersion(prev))
  IN [err |-> "ok", plan |-> r.plan, recv |-> r.recv, prev |-> prev]

ResMigrate(prev, fs, relativeN) ==
  LET r == From(fs, LastVersion(prev), relativeN)
  IN [err |-> "ok", plan |-> r.plan, recv |-> r.recv, prev |-> prev]

ResMigrateTo(prev, fs, dstVersion) ==
  LET r == FromTo(fs, LastVersion(prev), dstVersion)
  IN [err |-> "ok", plan |-> r.plan, recv |-> r.recv, prev |-> prev]

ResMigrateBetween(prev, fs) ==
  IF Len(prev) = 0
  THEN LET s == SortAsc(fs)
           curVersion == LastVersion(prev)
           dstVersion == LastVersion(s)
       IN IF Compare(curVersion, dstVersion) <= 0
          THEN [err |-> "ok", plan |-> ToLastFrom(s, curVersion).plan,
                recv |-> s, prev |-> prev]
          ELSE [err |-> "ok", plan |-> DownTo(s, dstVersion).plan,
                recv |-> DownTo(s, dstVersion).recv, prev |-> prev]
  ELSE LET b == Between(V2, fs, prev, Force)
       IN [err |-> b.err, plan |-> b.plan, recv |-> b.recv, prev |-> b.prev]

\* MigrateBetweenSync / MigrateToSync start the worker goroutine, which
\* holds the results res of MigrateBetween / MigrateTo until it assigns them
StartSync(res) == [NoSync EXCEPT !.worker = "run", !.reader = "wait", !.res = res]

\* the named results <<curVersion, dstVersion>> of MigrateBetween: nil until
\* assigned
MigrateBetweenResult(fail) ==
  LET ir == MigratorInit(~Force)
  IN IF fail \/ ir.err # "ok" THEN <<NULL, NULL>>
     ELSE IF Len(ir.prev) = 0
     THEN <<LastVersion(ir.prev), LastVersion(SortAsc(ir.files))>>
     ELSE <<Between(V2, ir.files, ir.prev, Force).cur,
            Between(V2, ir.files, ir.prev, Force).dst>>

\* the named result version of MigrateTo, nil until assigned
MigrateToResult(fail) ==
  LET ir == MigratorInit(TRUE)
  IN IF fail \/ ir.err # "ok" THEN <<NULL, NULL>>
     ELSE <<LastVersion(ir.prev), NULL>>

\* the operation op starts in phase h
Begin(o, h) ==
  /\ pc = "idle"
  /\ op' = o
  /\ half' = h
  /\ UNCHANGED upStarted

Up ==
  /\ Begin([NoOp EXCEPT !.name = "Up"], 0)
  /\ startRows' = rows
  /\ \E fail \in BOOLEAN : Enter(fail, TRUE, ResUp)
  /\ UNCHANGED sync

Down ==
  /\ Begin([NoOp EXCEPT !.name = "Down"], 0)
  /\ startRows' = rows
  /\ \E fail \in BOOLEAN : Enter(fail, TRUE, ResDown)
  /\ UNCHANGED sync

Migrate ==
  \E relativeN \in (-MaxN)..MaxN :
    /\ Begin([NoOp EXCEPT !.name = "Migrate", !.n = relativeN], 0)
    /\ startRows' = rows
    /\ \E fail \in BOOLEAN :
         LET Res(prev, fs) == ResMigrate(prev, fs, relativeN)
         IN Enter(fail, TRUE, Res)
    /\ UNCHANGED sync

\* the destinations tried: the zero Version and the versions on disk or recorded
Destinations ==
  {ZeroVersion} \cup {disk[i].ver : i \in 1..Len(disk)}
                \cup {rows[i].ver : i \in 1..Len(rows)}

MigrateTo ==
  \E dstVersion \in Destinations :
    /\ Begin([NoOp EXCEPT !.name = "MigrateTo", !.dst = dstVersion], 0)
    /\ startRows' = rows
    /\ \E fail \in BOOLEAN :
         LET Res(prev, fs) == ResMigrateTo(prev, fs, dstVersion)
         IN /\ Enter(fail, TRUE, Res)
            /\ sync' = StartSync(MigrateToResult(fail))

MigrateBetween ==
  /\ Begin([NoOp EXCEPT !.name = "MigrateBetween"], 0)
  /\ startRows' = rows
  /\ \E fail \in BOOLEAN :
       /\ Enter(fail, ~Force, ResMigrateBetween)
       /\ sync' = StartSync(MigrateBetweenResult(fail))


\* ------------------------------------------------------------------------
\* Migrator.migrateFiles
\* ------------------------------------------------------------------------
\* a transaction record: its kind ("update": opened by updateFiles, "plan":
\* opened by the plan loop), the phase it belongs to, the migrations handed
\* to the driver inside it, how it ended, and int: the number of migrations
\* started in it when a cancellation was observed during it (-1: none)
NewTx(kind) == [kind |-> kind, half |-> half, migs |-> <<>>, status |-> "open", int |-> -1]

LogBegin(kind) == Append(txlog, NewTx(kind))

LogEnd(log, status) == [log EXCEPT ![Len(log)].status = status]

LogMigration(log, m) ==
  [log EXCEPT ![Len(log)].migs = Append(@, [ver |-> m.ver, dir |-> m.dir])]

\* updateFiles(stop) up to its loop: conn.Begin, then sort.Sort(files)
UpdateFilesBegin(stop, beginOk) ==
  IF beginOk
  THEN /\ tx' = "open"
       /\ txRows' = rows
       /\ txlog' = LogBegin("update")
       /\ files' = SortAsc(files)
       /\ stopAt' = stop
       /\ idx' = 1
       /\ pc' = "upd"
       /\ UNCHANGED retErr
  ELSE /\ Return("err")
       /\ UNCHANGED <<tx, txRows, txlog, files, stopAt, idx>>

\* entry of migrateFiles, up to the plan loop or to updateFiles' loop
MigrateFilesEnter ==
  /\ pc = "mf"
  /\ IF Len(plan) = 0
     THEN IF Len(prevFiles) > 0 /\ SortAsc(prevFiles)[1].up = ""
          THEN /\ prevFiles' = SortAsc(prevFiles)
               /\ \E beginOk \in BOOLEAN :
                    UpdateFilesBegin(Inc(LastVersion(files), TRUE), beginOk)
          ELSE /\ prevFiles' = SortAsc(prevFiles)
               /\ Return("nil")
               /\ UNCHANGED <<tx, txRows, txlog, files, stopAt, idx>>
     ELSE IF IsUp(plan[1])
          THEN /\ \E beginOk \in BOOLEAN : UpdateFilesBegin(plan[1].ver, beginOk)
               /\ UNCHANGED prevFiles
          ELSE /\ pc' = "loop"
               /\ idx' = 1
               /\ UNCHANGED <<tx, txRows, txlog, files, stopAt, retErr, prevFiles>>
  /\ UNCHANGED <<cfgVars, rows, op, half, plan, prevVersion, waitVars, pipeVars,
                 calls, startRows, upStarted, rotVars, sync>>

\* commit(): tx.Commit() and tx = nil; a finished transaction cannot commit
Commit(ok) ==
  /\ tx' = "nil"
  /\ txRows' = NULL
  /\ IF tx = "open"
     THEN /\ rows' = IF ok THEN txRows ELSE rows
          /\ txlog' = LogEnd(txlog, IF ok THEN "committed" ELSE "commitfailed")
     ELSE UNCHANGED <<rows, txlog>>

CommitOk(ok) == tx = "open" /\ ok

\* head of updateFiles' loop: the next file below stopAt is announced and
\* handed to the driver's UpdateFiles, or the transaction is committed
UpdateFilesLoop ==
  /\ pc = "upd"
  /\ IF idx <= Len(files) /\ Compare(files[idx].ver, stopAt) < 0
     THEN /\ Deliver(<<"file">>)
          /\ sub' = "sent"
          /\ wErr' = FALSE
          /\ wInt' = FALSE
          /\ pc' = "updwait"
          /\ UNCHANGED <<tx, dbVars, txlog, idx, retErr>>
     ELSE /\ \E ok \in BOOLEAN :
               /\ Commit(ok)
               /\ IF ~CommitOk(ok) THEN Return("err") /\ UNCHANGED idx
                  ELSE IF Len(plan) = 0 THEN Return("nil") /\ UNCHANGED idx
                  ELSE pc' = "loop" /\ idx' = 1 /\ UNCHANGED retErr
          /\ Deliver(<<>>)
          /\ UNCHANGED <<sub, wErr, wInt>>
  /\ UNCHANGED <<cfgVars, op, half, prevFiles, files, plan, stopAt, prevVersion,
                 oInt, outClosed, calls, startRows, upStarted, rotVars, sync>>

\* the driver's UpdateFiles runs and closes its channel
DriverUpdate ==
  /\ pc = "updwait"
  /\ sub = "sent"
  /\ \E ok \in BOOLEAN :
       IF ok
       THEN /\ txRows' = DriverUpdateFiles(txRows, files[idx])
            /\ Forward(<<>>)
            /\ UNCHANGED wErr
       ELSE /\ Forward(<<"err">>)
            /\ wErr' = TRUE
            /\ UNCHANGED txRows
  /\ sub' = "closed"
  /\ UNCHANGED <<cfgVars, rows, op, half, pc, mfVars, wInt, oInt, outClosed,
                 histVars, rotVars, sync>>

\* a Rollback that keeps what the transaction wrote
RollbackKeepsWrites ==
  /\ tx' = "ended"
  /\ txRows' = NULL
  /\ txlog' = LogEnd(txlog, "rolledback")
  /\ rows' = txRows

\* tx.Rollback()
Rollback ==
  /\ tx' = "ended"
  /\ txRows' = NULL
  /\ txlog' = LogEnd(txlog, "rolledback")
  /\ UNCHANGED rows

\* what WaitAndRedirect reports once the driver's channel is closed
WaitAndRedirect == ~wErr /\ ~wInt

\* WaitAndRedirect returns in updateFiles
UpdateFilesWaitReturn ==
  /\ pc = "updwait"
  /\ sub = "closed"
  /\ sub' = "none"
  /\ IF WaitAndRedirect
     THEN /\ idx' = idx + 1
          /\ pc' = "upd"
          /\ UNCHANGED <<tx, dbVars, txlog, retErr>>
     ELSE /\ Rollback
          /\ \E rollbackOk \in BOOLEAN :
               IF ~rollbackOk THEN Return("err") /\ UNCHANGED idx
               \* updateFiles returns nil: "return updateFiles(...)" ends
               \* migrateFiles, "if err := updateFiles(...); err != nil" goes on
               ELSE IF Len(plan) = 0 THEN Return("nil") /\ UNCHANGED idx
               ELSE pc' = "loop" /\ idx' = 1 /\ UNCHANGED retErr
  /\ UNCHANGED <<cfgVars, op, half, prevFiles, files, plan, stopAt, prevVersion,
                 wErr, wInt, oErr, oInt, pipeVars, calls, startRows, upStarted, rotVars, sync>>

\* the condition without the comparison of the major versions
NeedsCommitPerFileOnly(f) ==
  tx # "nil" /\ TxPerFile

\* the condition "tx != nil && (txPerFile || prevVersion.Major() != f.Major())"
NeedsCommit(f) ==
  tx # "nil" /\ (TxPerFile \/ Major(prevVersion) # Major(f.ver))

\* evaluating it calls Major() on the nil prevVersion
NilDeref == tx # "nil" /\ ~TxPerFile /\ prevVersion = NULL

\* head of the plan loop: commit if needed, begin if needed, start the
\* driver's Migrate; after the last migration, the final commit
PlanLoop ==
  /\ pc = "loop"
  /\ IF idx > Len(plan)
     THEN /\ \E ok \in BOOLEAN :
               /\ Commit(ok)
               /\ Return(IF CommitOk(ok) THEN "nil" ELSE "err")
          /\ UNCHANGED <<sub, wErr, wInt>>
     ELSE IF NilDeref
     THEN /\ pc' = "panic"
          /\ UNCHANGED <<tx, dbVars, txlog, retErr, sub, wErr, wInt>>
     ELSE \E commitOk \in BOOLEAN, beginOk \in BOOLEAN :
            LET f == plan[idx]
                nc == NeedsCommit(f)
                cok == CommitOk(commitOk)
                log1 == IF nc /\ tx = "open"
                        THEN LogEnd(txlog, IF commitOk THEN "committed" ELSE "commitfailed")
                        ELSE txlog
                rows1 == IF nc /\ cok THEN txRows ELSE rows
                begins == (nc /\ cok) \/ tx = "nil"
            IN IF nc /\ ~cok
               THEN /\ Commit(commitOk)
                    /\ Return("err")
                    /\ UNCHANGED <<sub, wErr, wInt>>
               ELSE IF begins /\ ~beginOk
               THEN /\ tx' = "nil"
                    /\ txRows' = NULL
                    /\ rows' = rows1
                    /\ txlog' = log1
                    /\ Return("err")
                    /\ UNCHANGED <<sub, wErr, wInt>>
               ELSE /\ tx' = "open"
                    /\ rows' = rows1
                    /\ txRows' = IF begins THEN rows1 ELSE txRows
                    /\ txlog' = LogMigration(
                                  IF begins
                                  THEN Append(log1, NewTx("plan"))
                                  ELSE log1, f)
                    /\ sub' = "start"
                    /\ wErr' = FALSE
                    /\ wInt' = FALSE
                    /\ pc' = "wait"
                    /\ UNCHANGED retErr
  /\ UNCHANGED <<cfgVars, op, half, prevFiles, files, plan, idx, stopAt, prevVersion,
                 oErr, oInt, pipeVars, calls, startRows, upStarted, rotVars, sync>>

\* pgDriver.Migrate announces the file it is about to apply
DriverSendFile ==
  /\ pc = "wait"
  /\ sub = "start"
  /\ sub' = "sent"
  /\ Forward(<<"file">>)
  /\ UNCHANGED <<cfgVars, dbVars, op, half, pc, mfVars, wErr, wInt, oInt, outClosed,
                 histVars, rotVars, sync>>

\* pgDriver.Migrate records the version, executes the script and closes
\* its channel; scriptOk: the database accepts the script
DriverMigrate ==
  /\ pc = "wait"
  /\ sub = "sent"
  /\ \E scriptOk \in BOOLEAN :
       LET f == plan[idx]
           rec == DriverRecord(V2, txRows, f)
           good == rec.ok /\ scriptOk
       IN /\ txRows' = rec.rows
          /\ calls' = Append(calls, [ver |-> f.ver, dir |-> f.dir, half |-> half,
                                     res |-> IF good THEN "ok" ELSE "err"])
          /\ IF good
             THEN Forward(<<>>) /\ UNCHANGED wErr
             ELSE Forward(<<"err">>) /\ wErr' = TRUE
  /\ sub' = "closed"
  /\ UNCHANGED <<cfgVars, rows, op, half, pc, mfVars, wInt, oInt, outClosed,
                 txlog, startRows, upStarted, rotVars, sync>>

\* a wait that returns as soon as a cancellation is observed, while the
\* driver's call is still running
PlanWaitReturnOnSignal ==
  /\ pc = "wait"
  /\ sub = "closed" \/ wInt
  /\ sub' = "none"
  /\ IF WaitAndRedirect
     THEN /\ prevVersion' = plan[idx].ver
          /\ idx' = idx + 1
          /\ pc' = "loop"
          /\ UNCHANGED <<tx, dbVars, txlog, retErr>>
     ELSE /\ Rollback
          /\ \E rollbackOk \in BOOLEAN : Return(IF rollbackOk THEN "nil" ELSE "err")
          /\ UNCHANGED <<idx, prevVersion>>
  /\ UNCHANGED <<cfgVars, op, half, prevFiles, files, plan, stopAt,
                 wErr, wInt, oErr, oInt, pipeVars, calls, startRows, upStarted, rotVars, sync>>

\* a plan loop that goes on whatever WaitAndRedirect reports
PlanWaitReturnGoesOn ==
  /\ pc = "wait"
  /\ sub = "closed"
  /\ sub' = "none"
  /\ prevVersion' = plan[idx].ver
  /\ idx' = idx + 1
  /\ pc' = "loop"
  /\ UNCHANGED <<tx, dbVars, txlog, retErr>>
  /\ UNCHANGED <<cfgVars, op, half, prevFiles, files, plan, stopAt,
                 wErr, wInt, oErr, oInt, pipeVars, calls, startRows, upStarted, rotVars, sync>>

\* WaitAndRedirect returns in the plan loop
PlanWaitReturn ==
  /\ pc = "wait"
  /\ sub = "closed"
  /\ sub' = "none"
  /\ IF WaitAndRedirect
     THEN /\ prevVersion' = plan[idx].ver
          /\ idx' = idx + 1
          /\ pc' = "loop"
          /\ UNCHANGED <<tx, dbVars, txlog, retErr>>
     ELSE /\ Rollback
          /\ \E rollbackOk \in BOOLEAN : Return(IF rollbackOk THEN "nil" ELSE "err")
          /\ UNCHANGED <<idx, prevVersion>>
  /\ UNCHANGED <<cfgVars, op, half, prevFiles, files, plan, stopAt,
                 wErr, wInt, oErr, oInt, pipeVars, calls, startRows, upStarted, rotVars, sync>>

\* an interrupt signal is observed by the WaitAndRedirect of migrateFiles
\* before the driver's channel is closed
Interrupt ==
  /\ Interrupts
  /\ pc \in {"wait", "updwait"}
  /\ sub \in {"start", "sent"}
  /\ ~wInt
  /\ wInt' = TRUE
  /\ txlog' = [txlog EXCEPT ![Len(txlog)].int = Len(txlog[Len(txlog)].migs)]
  /\ UNCHANGED <<cfgVars, dbVars, op, half, pc, mfVars, sub, wErr, oErr, oInt,
                 pipeVars, calls, startRows, upStarted, rotVars, sync>>

\* pipe.Close(pipe, err) of MigrateFiles: the error, if any, then the close
Close ==
  /\ pc = "ret"
  /\ half \in {0, 2}
  /\ Deliver(IF retErr = "err" THEN <<"err">> ELSE <<>>)
  /\ outClosed' = outClosed + 1
  /\ pc' = "done"
  /\ UNCHANGED <<cfgVars, dbVars, op, half, mfVars, sub, wErr, wInt, oInt,
                 histVars, rotVars, sync>>

\* pipe.Close of the first phase of Redo, Reset and Restore: the inner
\* channel is closed and the outer WaitAndRedirect sees the close
CloseInner ==
  /\ pc = "ret"
  /\ half = 1
  /\ Deliver(IF retErr = "err" THEN <<"err">> ELSE <<>>)
  /\ pc' = "chain"
  /\ UNCHANGED <<cfgVars, dbVars, op, half, mfVars, sub, wErr, wInt, oInt, outClosed,
                 histVars, rotVars, sync>>

\* an interrupt signal is observed by the outer WaitAndRedirect of Redo,
\* Reset, Dump or Restore before the inner channel is closed
InterruptOuter ==
  /\ Interrupts
  /\ half \in {1, 3}
  /\ pc \in {"mf", "upd", "updwait", "loop", "wait", "ret", "dd"}
  /\ ~oInt
  /\ oInt' = TRUE
  /\ UNCHANGED <<cfgVars, dbVars, op, half, pc, mfVars, sub, wErr, wInt, oErr,
                 pipeVars, histVars, rotVars, sync>>

\* ------------------------------------------------------------------------
\* Redo, Reset
\* ------------------------------------------------------------------------
ResDownOne(prev, fs) == ResMigrate(prev, fs, -1)

ResUpOne(prev, fs) == ResMigrate(prev, fs, 1)

Redo ==
  /\ Begin([NoOp EXCEPT !.name = "Redo"], 1)
  /\ startRows' = rows
  /\ \E fail \in BOOLEAN : Enter(fail, TRUE, ResDownOne)
  /\ UNCHANGED sync

Reset ==
  /\ Begin([NoOp EXCEPT !.name = "Reset"], 1)
  /\ startRows' = rows
  /\ \E fail \in BOOLEAN : Enter(fail, TRUE, ResDown)
  /\ UNCHANGED sync

\* what WaitAndRedirect reports for the first phase
WaitOk == ~oErr /\ ~oInt

\* pipe.Close(pipe, nil) on the output channel
CloseNil ==
  /\ outClosed' = outClosed + 1
  /\ pc' = "done"
  /\ UNCHANGED <<outItems, lateSend>>

\* Redo / Reset after WaitAndRedirect returned: the Up half, or the close
Chain ==
  /\ pc = "chain"
  /\ op.name \in {"Redo", "Reset"}
  /\ IF WaitOk
     THEN /\ half' = 2
          /\ upStarted' = TRUE
          /\ \E fail \in BOOLEAN :
               IF op.name = "Redo" THEN Enter(fail, TRUE, ResUpOne)
               ELSE Enter(fail, TRUE, ResUp)
          /\ UNCHANGED sync
     ELSE /\ CloseNil
          /\ UNCHANGED <<cfgVars, dbVars, half, mfVars, waitVars, txlog, calls,
                         upStarted, rotVars, sync>>
  /\ UNCHANGED <<op, startRows>>

\* ------------------------------------------------------------------------
\* MigrateBetweenSync, MigrateToSync
\* ------------------------------------------------------------------------
notSync == <<cfgVars, dbVars, op, half, pc, mfVars, waitVars, pipeVars, histVars, rotVars>>

\* the worker goroutine, once MigrateBetween / MigrateTo has returned (it
\* returns after starting the goroutine of pipe.Close), assigns the results
\* to the variables of the Sync call: curVersion, then dstVersion
SyncAssign ==
  /\ pc \in {"ret", "done"}
  /\ sync.worker \in {"run", "cur"}
  /\ sync' = IF sync.worker = "run"
             THEN [sync EXCEPT !.cur = sync.res[1],
                               !.worker = IF op.name = "MigrateTo" THEN "done" ELSE "cur"]
             ELSE [sync EXCEPT !.dst = sync.res[2], !.worker = "done"]
  /\ UNCHANGED notSync

\* pipe.ReadErrors has seen the channel closed: the Sync call returns its
\* variables as they are
SyncReturn ==
  /\ sync.reader = "wait"
  /\ outClosed >= 1
  /\ sync' = [sync EXCEPT !.reader = "returned", !.ret = <<sync.cur, sync.dst>>]
  /\ UNCHANGED notSync

\* ------------------------------------------------------------------------
\* Dump, Restore
\* ------------------------------------------------------------------------
\* Dump up to the start of the driver's Dump; fail: GetMigrationFiles or
\* writing a schema file returned an error
Dump ==
  \E fail \in BOOLEAN :
    /\ Begin([NoOp EXCEPT !.name = "Dump"], IF fail THEN 0 ELSE 3)
    /\ startRows' = rows
    /\ IF fail THEN Return("err") ELSE pc' = "dd" /\ UNCHANGED retErr
    /\ UNCHANGED <<cfgVars, dbVars, prevFiles, files, plan, idx, stopAt, tx, prevVersion,
                   waitVars, pipeVars, txlog, calls, rotVars, sync>>

\* Restore up to the start of the Up plan built from the dumped files
Restore ==
  \E failAt \in {"none", "delete", "later"} :
    LET r == ToLastFrom(disk, ZeroVersion)
        bad == failAt # "none" \/ Len(disk) = 0
    IN /\ Begin([NoOp EXCEPT !.name = "Restore"], IF bad THEN 0 ELSE 1)
       /\ failAt = "delete" => Force
       /\ rows' = IF Force /\ failAt # "delete" THEN <<>> ELSE rows
       /\ startRows' = rows'
       /\ IF bad
          THEN Return("err") /\ UNCHANGED <<prevFiles, files, plan>>
          ELSE /\ pc' = "mf"
               /\ prevFiles' = <<>>
               /\ files' = r.recv
               /\ plan' = r.plan
               /\ UNCHANGED retErr
       /\ idx' = 0
       /\ tx' = "nil"
       /\ prevVersion' = NULL
       /\ UNCHANGED <<cfgVars, txRows, stopAt, waitVars, pipeVars, txlog, calls, rotVars, sync>>

\* Restore after the Up phase: TruncateTables and the start of the driver's
\* Restore, or the deferred close
ChainRestore ==
  /\ pc = "chain"
  /\ op.name = "Restore"
  /\ IF WaitOk
     THEN /\ \E fail \in BOOLEAN :
               IF fail THEN Return("err") /\ half' = 0
               ELSE pc' = "dd" /\ half' = 3 /\ UNCHANGED retErr
          /\ UNCHANGED pipeVars
     ELSE /\ CloseNil
          /\ UNCHANGED <<half, retErr>>
  /\ UNCHANGED <<cfgVars, dbVars, op, prevFiles, files, plan, idx, stopAt, tx,
                 prevVersion, waitVars, histVars, rotVars, sync>>

\* the driver's Dump or Restore runs: it reports the table, then succeeds,
\* sends an error, or (restoreTable, on a failed copy) panics
DriverDump ==
  /\ pc = "dd"
  /\ \E res \in {"ok", "err", "panic"} :
       /\ res = "panic" => op.name = "Restore"
       /\ Deliver(IF res = "err" THEN <<"text", "err">> ELSE <<"text">>)
       /\ pc' = IF res = "panic" THEN "panic" ELSE "ddclosed"
  /\ UNCHANGED <<cfgVars, dbVars, op, half, mfVars, sub, wErr, wInt, oInt, outClosed,
                 histVars, rotVars, sync>>

\* the deferred pipe.Close(pipe, err) of Dump and Restore after
\* WaitAndRedirect has returned: err is nil there
CloseDeferred ==
  /\ pc = "ddclosed"
  /\ CloseNil
  /\ UNCHANGED <<cfgVars, dbVars, op, half, mfVars, waitVars, histVars, rotVars, sync>>

\* ------------------------------------------------------------------------
\* SchemaMigrator.rotateSchemas (driver/pgx/schema_migrator.go)
\* ------------------------------------------------------------------------
SchemaNames == {"bak", "live", "tmp"}

\* StartRestore: live_bak, live, live_tmp
RestoreSlots == <<"bak", "live", "tmp">>

\* a revert list without the closing live_tmp
RevertSlotsThree == <<"tmp", "live", "bak">>

\* StartRevert: live_tmp, live, live_bak, live_tmp
RevertSlots == <<"tmp", "live", "bak", "tmp">>

\* DROP SCHEMA IF EXISTS name CASCADE
dropSchema(sc, name) == [sc EXCEPT ![name] = 0]

\* ALTER SCHEMA from RENAME TO to: refused when from does not exist or to does
CanRename(sc, from, to) == sc[from] # 0 /\ sc[to] = 0

\* a rename that leaves the old name in place
renameSchemaKeepsName(sc, from, to) == [sc EXCEPT ![to] = sc[from]]

renameSchema(sc, from, to) == [sc EXCEPT ![to] = sc[from], ![from] = 0]

\* what the whole rotation makes of sc
RECURSIVE Renamed(_, _, _)
Renamed(sc, slots, i) ==
  IF i > Len(slots) THEN sc
  ELSE Renamed(renameSchema(sc, slots[i], slots[i - 1]), slots, i + 1)

Rotated(sc, slots) == Renamed(dropSchema(sc, slots[1]), slots, 2)

InitRotate ==
  /\ V2 = FALSE
  /\ TxPerFile = FALSE
  /\ Interrupts = FALSE
  /\ Force = FALSE
  /\ disk = <<>>
  /\ openers = <<>>
  /\ rows = <<>>
  /\ txRows = NULL
  /\ op = NoOp
  /\ half = 0
  /\ pc = "off"
  /\ prevFiles = <<>>
  /\ files = <<>>
  /\ plan = <<>>
  /\ idx = 0
  /\ stopAt = ZeroVersion
  /\ tx = "nil"
  /\ prevVersion = NULL
  /\ retErr = "nil"
  /\ sub = "none"
  /\ wErr = FALSE
  /\ wInt = FALSE
  /\ oErr = FALSE
  /\ oInt = FALSE
  /\ outItems = <<>>
  /\ outClosed = 0
  /\ lateSend = FALSE
  /\ txlog = <<>>
  /\ calls = <<>>
  /\ startRows = <<>>
  /\ upStarted = FALSE
  \* every name refers to a schema of its own, or to none
  /\ \E present \in SUBSET SchemaNames :
       schemas = [n \in SchemaNames |->
                    IF n \notin present THEN 0
                    ELSE IF n = "bak" THEN 1 ELSE IF n = "live" THEN 2 ELSE 3]
  /\ rot = [NoRot EXCEPT !.pc = "idle"]
  /\ sync = NoSync

notRot == <<cfgVars, dbVars, op, half, pc, mfVars, waitVars, pipeVars, histVars, sync>>

\* rotateSchemas up to WithTransaction: m.Begin()
RotateBegin ==
  /\ rot.pc = "idle"
  /\ \E slots \in (IF rot.slots = <<>> THEN {RestoreSlots, RevertSlots} ELSE {rot.slots}),
        beginOk \in BOOLEAN :
       rot' = IF beginOk
              THEN [rot EXCEPT !.pc = "drop", !.slots = slots, !.i = 1, !.pre = schemas,
                               !.tx = schemas, !.err = FALSE,
                               !.first = IF rot.n = 0 THEN schemas ELSE rot.first]
              ELSE [rot EXCEPT !.pc = "done", !.slots = slots, !.i = 1, !.pre = schemas,
                               !.tx = "nil", !.err = TRUE,
                               !.first = IF rot.n = 0 THEN schemas ELSE rot.first]
  /\ UNCHANGED <<schemas, notRot>>

\* dropSchema(tx, schemas[0]); res: the statement succeeds, fails or panics
RotateDrop ==
  /\ rot.pc = "drop"
  /\ \E res \in {"ok", "err", "panic"} :
       rot' = IF res = "ok"
              THEN [rot EXCEPT !.tx = dropSchema(rot.tx, rot.slots[1]), !.i = 2,
                               !.pc = "rename"]
              ELSE [rot EXCEPT !.err = TRUE, !.pc = "end"]
  /\ UNCHANGED <<schemas, notRot>>

\* renameSchema(tx, schema, prevSchema) for the next slot
RotateRename ==
  /\ rot.pc = "rename"
  /\ IF rot.i > Len(rot.slots)
     THEN rot' = [rot EXCEPT !.pc = "end"]
     ELSE \E res \in {"ok", "err", "panic"} :
            LET from == rot.slots[rot.i]
                to == rot.slots[rot.i - 1]
            IN rot' = IF res = "ok" /\ CanRename(rot.tx, from, to)
                      THEN [rot EXCEPT !.tx = renameSchema(rot.tx, from, to),
                                       !.i = rot.i + 1]
                      ELSE [rot EXCEPT !.err = TRUE, !.pc = "end"]
  /\ UNCHANGED <<schemas, notRot>>

\* a deferred function that commits whatever happened
WithTransactionEndAlwaysCommits(r, sc, commitOk) ==
  IF commitOk THEN r.tx ELSE sc

\* what the deferred function of WithTransaction makes of the schemas:
\* Rollback after an error or a panic, Commit otherwise
WithTransactionEnd(r, sc, commitOk) ==
  IF r.err THEN sc
  ELSE IF commitOk THEN r.tx ELSE sc

RotateEnd ==
  /\ rot.pc = "end"
  /\ \E commitOk \in BOOLEAN :
       /\ schemas' = WithTransactionEnd(rot, schemas, commitOk)
       /\ rot' = [rot EXCEPT !.pc = "done", !.tx = "nil",
                             !.err = rot.err \/ ~commitOk]
  /\ UNCHANGED notRot

\* the rotations made in a row
MaxRotations == 2

\* rotateSchemas has returned and is called again with the same slots
RotateAgain ==
  /\ rot.pc = "done"
  /\ rot.n + 1 < MaxRotations
  /\ rot' = [rot EXCEPT !.pc = "idle", !.n = rot.n + 1,
                        !.ok = rot.ok + (IF rot.err THEN 0 ELSE 1)]
  /\ UNCHANGED <<schemas, notRot>>

NextRotate ==
  \/ RotateAgain
  \/ RotateBegin
  \/ RotateDrop
  \/ RotateRename
  \/ RotateEnd

SpecRotate == InitRotate /\ [][NextRotate]_vars

\* ------------------------------------------------------------------------
\* SchemaMigrator.Restore, SchemaMigrator.Revert (driver/pgx/schema_migrator.go)
\* rows is the version table of the schema the copied migrator works on:
\* what the dump holds (loaded into live_tmp) for Restore, live_bak for Revert
\* ------------------------------------------------------------------------
InitSchema ==
  /\ V2 \in BOOLEAN
  /\ TxPerFile \in BOOLEAN
  /\ Interrupts \in BOOLEAN
  /\ Force \in BOOLEAN
  /\ \E sc \in Scenarios(V2) : disk = sc[1] /\ rows = sc[2]
  /\ openers = <<>>
  /\ txRows = NULL
  /\ op = NoOp
  /\ half = 0
  /\ pc = "schema"
  /\ prevFiles = <<>>
  /\ files = <<>>
  /\ plan = <<>>
  /\ idx = 0
  /\ stopAt = ZeroVersion
  /\ tx = "nil"
  /\ prevVersion = NULL
  /\ retErr = "nil"
  /\ sub = "none"
  /\ wErr = FALSE
  /\ wInt = FALSE
  /\ oErr = FALSE
  /\ oInt = FALSE
  /\ outItems = <<>>
  /\ outClosed = 0
  /\ lateSend = FALSE
  /\ txlog = <<>>
  /\ calls = <<>>
  /\ startRows = rows
  /\ upStarted = FALSE
  /\ \E present \in SUBSET SchemaNames :
       schemas = [n \in SchemaNames |->
                    IF n \notin present THEN 0
                    ELSE IF n = "bak" THEN 1 ELSE IF n = "live" THEN 2 ELSE 3]
  /\ rot = NoRot
  /\ sync = NoSync

\* the variables the steps before the rotation leave alone
notSchema ==
  <<cfgVars, txRows, half, prevFiles, files, idx, stopAt, tx, prevVersion, waitVars,
    pipeVars, txlog, calls, startRows, upStarted, schemas, sync>>

\* SchemaMigrator.Restore / Revert return err
SchemaReturn(err) ==
  /\ pc' = "returned"
  /\ retErr' = err

\* Restore up to RestoreSync: m.Acquire(), StartRestore
SchemaRestore ==
  /\ pc = "schema"
  /\ op' = [NoOp EXCEPT !.name = "SchemaRestore"]
  /\ \E acquireOk \in BOOLEAN :
       IF acquireOk
       THEN /\ pc' = "restoresync"
            /\ rot' = [NoRot EXCEPT !.slots = RestoreSlots]
            /\ UNCHANGED retErr
       ELSE SchemaReturn("err") /\ UNCHANGED rot
  /\ UNCHANGED <<notSchema, rows, plan>>

\* Revert up to migrateSchema: m.Acquire(), StartRevert
SchemaRevert ==
  /\ pc = "schema"
  /\ op' = [NoOp EXCEPT !.name = "SchemaRevert"]
  /\ \E acquireOk \in BOOLEAN :
       IF acquireOk
       THEN /\ pc' = "migrateschema"
            /\ rot' = [NoRot EXCEPT !.slots = RevertSlots]
            /\ UNCHANGED retErr
       ELSE SchemaReturn("err") /\ UNCHANGED rot
  /\ UNCHANGED <<notSchema, rows, plan>>

\* migrator.RestoreSync(dconn, dr) into live_tmp returns its errors
SchemaRestoreSync ==
  /\ pc = "restoresync"
  /\ \E ok \in BOOLEAN :
       IF ok THEN pc' = "migrateschema" /\ UNCHANGED retErr
       ELSE SchemaReturn("err")
  /\ UNCHANGED <<notSchema, op, rows, plan, rot>>

\* the version table after the first k migrations of pl were committed
RECURSIVE Committed(_, _, _)
Committed(rs, pl, k) ==
  IF k = 0 THEN rs ELSE DriverRecord(V2, Committed(rs, pl, k - 1), pl[k]).rows

\* the driver accepts each of the first k migrations of pl
RECURSIVE Accepted(_, _, _)
Accepted(rs, pl, k) ==
  k = 0 \/ (Accepted(rs, pl, k - 1)
             /\ DriverRecord(V2, Committed(rs, pl, k - 1), pl[k]).ok)

\* migrateFiles commits between the migrations k and k + 1 of pl
CommitsAfter(pl, k) ==
  k = 0 \/ k = Len(pl) \/ TxPerFile \/ Major(pl[k].ver) # Major(pl[k + 1].ver)

\* migrateSchema: MigrateBetweenSync on the copied migrator's schema; the
\* run commits the first k migrations of its plan and ends there with an
\* error item, or with none when it was cancelled or went through
SchemaMigrate ==
  /\ pc = "migrateschema"
  /\ \E fail \in BOOLEAN, ir \in {MigratorInit(~Force)} :
       \E r \in {ResMigrateBetween(ir.prev, ir.files)} :
         IF fail \/ ir.err # "ok" \/ r.err # "ok"
         THEN SchemaReturn("err") /\ UNCHANGED <<rows, plan, rot>>
         ELSE \E k \in {j \in 0..Len(r.plan) :
                            CommitsAfter(r.plan, j) /\ Accepted(rows, r.plan, j)},
                 end \in {"error", "cancelled", "through"} :
                /\ end = "through" <=> k = Len(r.plan)
                /\ end = "cancelled" => Interrupts
                /\ plan' = r.plan
                /\ rows' = Committed(rows, r.plan, k)
                /\ IF end = "error"
                   THEN SchemaReturn("err") /\ UNCHANGED rot
                   ELSE /\ pc' = "rotate"
                        /\ rot' = [rot EXCEPT !.pc = "idle"]
                        /\ UNCHANGED retErr
  /\ UNCHANGED <<notSchema, op>>

\* rotateSchemas has returned: FinishRestore / Revert return its error
SchemaRotated ==
  /\ pc = "rotate"
  /\ rot.pc = "done"
  /\ SchemaReturn(IF rot.err THEN "err" ELSE "nil")
  /\ UNCHANGED <<notSchema, op, rows, plan, rot>>

NextSchema ==
  \/ SchemaRestore
  \/ SchemaRevert
  \/ SchemaRestoreSync
  \/ SchemaMigrate
  \/ SchemaRotated
  \/ RotateBegin
  \/ RotateDrop
  \/ RotateRename
  \/ RotateEnd

SpecSchema == InitSchema /\ [][NextSchema]_vars

\* ------------------------------------------------------------------------
\* The resolution functions applied on their own (file/file.go): the
\* receiver is the on-disk collection, prevFiles the recorded one
\* ------------------------------------------------------------------------
\* the versions a caller may pass
Versions(isV2) ==
  {NewVersion2(isV2, ma, mi) : ma \in 0..MaxMajor, mi \in 0..MaxFiles}

\* the elements of s at the positions in keep, in the order of s
Keep(s, keep) ==
  LET F[i \in 0..Len(s)] ==
        IF i = 0 THEN <<>>
        ELSE IF i \in keep THEN Append(F[i - 1], s[i]) ELSE F[i - 1]
  IN F[Len(s)]

\* <<disk, rows>>: any of the files of a chain are on disk, none or all of
\* its versions are recorded
Gapped(isV2) ==
  UNION {{<<Keep(DiskOf(c), keep), RowsOf(isV2, c, k)>> :
            keep \in SUBSET (1..Len(c)), k \in {0, Len(c)}} : c \in Chains(isV2)}

InitResolve ==
  /\ V2 \in BOOLEAN
  /\ TxPerFile = FALSE
  /\ Interrupts = FALSE
  /\ Force \in BOOLEAN
  /\ \E sc \in Scenarios(V2) \cup Gapped(V2) : disk = sc[1] /\ rows = sc[2]
  /\ openers = <<>>
  /\ txRows = NULL
  /\ op = NoOp
  /\ half = 0
  /\ pc = "call"
  /\ prevFiles = GetMigrationFiles(rows)
  /\ files = disk
  /\ plan = <<>>
  /\ idx = 0
  /\ stopAt = ZeroVersion
  /\ tx = "nil"
  /\ prevVersion = NULL
  /\ retErr = "nil"
  /\ sub = "none"
  /\ wErr = FALSE
  /\ wInt = FALSE
  /\ oErr = FALSE
  /\ oInt = FALSE
  /\ outItems = <<>>
  /\ outClosed = 0
  /\ lateSend = FALSE
  /\ txlog = <<>>
  /\ calls = <<>>
  /\ startRows = rows
  /\ upStarted = FALSE
  /\ schemas = <<>>
  /\ rot = NoRot
  /\ sync = NoSync

\* a function returned: its plan, the receiver and prevFiles as it left
\* them, and for Between the error and the two versions it returned
Resolved(name, n, v, r, prev, err, cur, dst) ==
  /\ pc = "call"
  /\ pc' = "resolved"
  /\ op' = [name |-> name, n |-> n, dst |-> v]
  /\ plan' = r.plan
  /\ files' = r.recv
  /\ prevFiles' = prev
  /\ retErr' = err
  /\ prevVersion' = cur
  /\ stopAt' = dst
  /\ UNCHANGED <<cfgVars, dbVars, half, idx, tx, waitVars, pipeVars, histVars, rotVars, sync>>

CallToLastFrom ==
  \E v \in Versions(V2) :
    Resolved("ToLastFrom", 0, v, ToLastFrom(files, v), prevFiles, "ok", NULL, stopAt)

CallToFirstFrom ==
  \E v \in Versions(V2) :
    Resolved("ToFirstFrom", 0, v, ToFirstFrom(files, v), prevFiles, "ok", NULL, stopAt)

CallDownTo ==
  \E v \in Versions(V2) :
    Resolved("DownTo", 0, v, DownTo(files, v), prevFiles, "ok", NULL, stopAt)

\* prevVersion holds startVersion
CallFromTo ==
  \E startVersion, stopVersion \in Versions(V2) :
    Resolved("FromTo", 0, stopVersion, FromTo(files, startVersion, stopVersion),
             prevFiles, "ok", startVersion, stopAt)

CallFrom ==
  \E v \in Versions(V2), relativeN \in (0 - MaxN)..MaxN :
    Resolved("From", relativeN, v, From(files, v, relativeN), prevFiles, "ok", NULL, stopAt)

\* prevVersion holds the curVersion returned, stopAt the dstVersion
CallBetween ==
  \E b \in {Between(V2, files, prevFiles, Force)} :
    Resolved("Between", 0, ZeroVersion, [plan |-> b.plan, recv |-> b.recv], b.prev,
             b.err, b.cur, b.dst)

\* prevVersion holds the Version returned, NULL for none
CallMissingVersion ==
  \E missing \in {MissingVersion(V2, files)} :
    Resolved("MissingVersion", 0, ZeroVersion, [plan |-> <<>>, recv |-> files], prevFiles,
             "ok", missing, stopAt)

\* the recorded collections ValidateBaseFiles may be given: the versions of
\* a chain, all of them or all but the first, with the content on disk or
\* another one
Recorded(isV2) ==
  {[i \in 1..Len(k) |-> [k[i] EXCEPT !.up = IF i = drift THEN "b" ELSE "a"]] :
     k \in {Keep(GetMigrationFiles(RowsOf(isV2, c, Len(c))), keep) :
              c \in Chains(isV2), keep \in {1..MaxFiles, 2..MaxFiles}},
     drift \in 0..MaxFiles}

\* mf.ValidateBaseFiles(prev); lacking: the position of a MigrationFile of
\* the receiver that was built from a down file only (0: none); op.n holds it
CallValidateBaseFiles ==
  \E prev \in Recorded(V2), lacking \in 0..Len(files) :
    \E mf \in {IF lacking = 0 THEN files ELSE [files EXCEPT ![lacking].up = NoUpFile]} :
      Resolved("ValidateBaseFiles", lacking, ZeroVersion, [plan |-> <<>>, recv |-> mf],
               prev, ValidateBaseFiles(V2, mf, prev), NULL, stopAt)

NextResolve ==
  \/ CallValidateBaseFiles
  \/ CallMissingVersion
  \/ CallToLastFrom
  \/ CallToFirstFrom
  \/ CallDownTo
  \/ CallFromTo
  \/ CallFrom
  \/ CallBetween

SpecResolve == InitResolve /\ [][NextResolve]_vars

\* ------------------------------------------------------------------------
\* The driver's Migrate called on its own, on a table that starts empty
\* (driver/pgx/postgres.go)
\* ------------------------------------------------------------------------
InitDriver ==
  /\ V2 \in BOOLEAN
  /\ TxPerFile = FALSE
  /\ Interrupts = FALSE
  /\ Force = FALSE
  /\ disk = <<>>
  /\ openers = <<>>
  /\ rows = <<>>
  /\ txRows = NULL
  /\ op = NoOp
  /\ half = 0
  /\ pc = "driver"
  /\ prevFiles = <<>>
  /\ files = <<>>
  /\ plan = <<>>
  /\ idx = 0
  /\ stopAt = ZeroVersion
  /\ tx = "nil"
  /\ prevVersion = NULL
  /\ retErr = "nil"
  /\ sub = "none"
  /\ wErr = FALSE
  /\ wInt = FALSE
  /\ oErr = FALSE
  /\ oInt = FALSE
  /\ outItems = <<>>
  /\ outClosed = 0
  /\ lateSend = FALSE
  /\ txlog = <<>>
  /\ calls = <<>>
  /\ startRows = <<>>
  /\ upStarted = FALSE
  /\ schemas = <<>>
  /\ rot = NoRot
  /\ sync = NoSync

\* Migrate: the version table is written, then the script is executed;
\* calls keeps the last call, startRows the table before it
MigrateCall(v, d, scriptOk) ==
  /\ pc = "driver"
  /\ LET rec == DriverRecord(V2, rows, [ver |-> v, dir |-> d, up |-> "a", src |-> "disk"])
     IN /\ rows' = rec.rows
        /\ calls' = <<[ver |-> v, dir |-> d, half |-> 0,
                       res |-> IF rec.ok /\ scriptOk THEN "ok" ELSE "err"]>>
        /\ retErr' = IF rec.ok THEN "nil" ELSE "err"
  /\ startRows' = rows
  /\ UNCHANGED <<cfgVars, txRows, op, half, pc, prevFiles, files, plan, idx, stopAt, tx,
                 prevVersion, waitVars, pipeVars, txlog, upStarted, rotVars, sync>>

MigrateUp == \E v \in Versions(V2), scriptOk \in BOOLEAN : MigrateCall(v, "up", scriptOk)

MigrateDown == \E v \in Versions(V2), scriptOk \in BOOLEAN : MigrateCall(v, "down", scriptOk)

NextDriver ==
  \/ MigrateUp
  \/ MigrateDown

SpecDriver == InitDriver /\ [][NextDriver]_vars

\* ------------------------------------------------------------------------
\* File names and their discovery (file/file.go, file/dir.go)
\*   a character is a digit 0..9 or Letter; a file name is
\*   [dir, minor, name, d, ext]: the directory it is in below the base path
\*   (<<>> for none), the characters before the first "_", the name, the
\*   direction token and the extension
\* ------------------------------------------------------------------------
Letter == 10

\* [0-9]+
IsNumber(t) == Len(t) > 0 /\ \A i \in 1..Len(t) : t[i] \in 0..9

\* strconv.ParseUint(t, 10, 0) of a text that is a number
ParseUint(t) ==
  LET F[i \in 0..Len(t)] == IF i = 0 THEN 0 ELSE F[i - 1] * 10 + t[i]
  IN F[Len(t)]

\* strconv.FormatUint(n, 10)
RECURSIVE FormatUint(_)
FormatUint(n) == IF n < 10 THEN <<n>> ELSE Append(FormatUint(n \div 10), n % 10)

padLeft(t, char, length) ==
  IF Len(t) % length # 0
  THEN [i \in 1..(length - (Len(t) % length)) |-> char] \o t
  ELSE t

MajorString(v) == padLeft(FormatUint(Major(v)), 0, 3)

MinorString(v) == padLeft(FormatUint(Minor(v)), 0, 4)

\* a parser that does not look at the extension
parseFilenameSchemaAnyExtension(isV2, filename, filenameExtension) ==
  LET matches == /\ IF isV2 THEN IsNumber(filename.dir) ELSE filename.dir = <<>>
                 /\ IsNumber(filename.minor)
                 /\ filename.d \in {"up", "down"}
  IN IF ~matches
     THEN [err |-> TRUE, major |-> 0, version |-> 0, d |-> "none"]
     ELSE [err |-> FALSE,
           major |-> IF isV2 THEN ParseUint(filename.dir) ELSE 0,
           version |-> ParseUint(filename.minor),
           d |-> filename.d]

\* parseFilenameSchema: the name matches filenameRegex (legacy) or
\* filenameRegexV2 (versioned), the numbers are parsed, the extension is compared
parseFilenameSchema(isV2, filename, filenameExtension) ==
  LET matches == /\ IF isV2 THEN IsNumber(filename.dir) ELSE filename.dir = <<>>
                 /\ IsNumber(filename.minor)
                 /\ filename.d \in {"up", "down"}
  IN IF ~matches
     THEN [err |-> TRUE, major |-> 0, version |-> 0, d |-> "none"]
     ELSE [err |-> filename.ext # filenameExtension,
           major |-> IF isV2 THEN ParseUint(filename.dir) ELSE 0,
           version |-> ParseUint(filename.minor),
           d |-> filename.d]

\* the elements of a set in some order
RECURSIVE SetSeq(_)
SetSeq(S) ==
  IF S = {} THEN <<>>
  ELSE LET x == CHOOSE y \in S : TRUE IN <<x>> \o SetSeq(S \ {x})

\* the loop of GetMigrationFiles from position i on: tmpFileMap maps each
\* Version seen to its [ver, up, down], up and down being file names or NULL
RECURSIVE ScanFrom(_, _, _, _, _)
ScanFrom(isV2, names, filenameExtension, i, tmpFileMap) ==
  IF i > Len(names)
  THEN [err |-> FALSE, files |-> SortAsc(SetSeq({tmpFileMap[v] : v \in DOMAIN tmpFileMap}))]
  ELSE LET parsed == parseFilenameSchema(isV2, names[i], filenameExtension)
           version == NewVersion2(isV2, parsed.major, parsed.version)
           migrationFile == IF version \in DOMAIN tmpFileMap THEN tmpFileMap[version]
                            ELSE [ver |-> version, up |-> NULL, down |-> NULL]
           taken == IF parsed.d = "up" THEN migrationFile.up # NULL
                    ELSE migrationFile.down # NULL
           filled == IF parsed.d = "up" THEN [migrationFile EXCEPT !.up = names[i]]
                     ELSE [migrationFile EXCEPT !.down = names[i]]
       IN IF parsed.err
          THEN ScanFrom(isV2, names, filenameExtension, i + 1, tmpFileMap)
          ELSE IF taken THEN [err |-> TRUE, files |-> <<>>]
          ELSE ScanFrom(isV2, names, filenameExtension, i + 1,
                        [v \in DOMAIN tmpFileMap \cup {version} |->
                           IF v = version THEN filled ELSE tmpFileMap[v]])

\* ReadMigrationFiles: GetMigrationFiles over the names DirReader.Files lists
ReadMigrationFiles(isV2, names, filenameExtension) ==
  ScanFrom(isV2, names, filenameExtension, 1, [v \in {} |-> NULL])

FilenameExtension == "sql"

\* the names a directory may hold: well-formed ones, and ones with a
\* non-numeric version, without direction token, with another extension
MaxNames == 3

Dirs == {<<>>, <<0, 0, 0>>, <<0, 0, 1>>}

FileNames ==
  {[dir |-> dr, minor |-> mi, name |-> "a", d |-> d, ext |-> "sql"] :
     dr \in Dirs, mi \in {<<1>>, <<0, 0, 0, 1>>, <<0, 0, 0, 2>>}, d \in {"up", "down"}}
  \cup {[dir |-> dr, minor |-> <<Letter>>, name |-> "a", d |-> "up", ext |-> "sql"] : dr \in Dirs}
  \cup {[dir |-> dr, minor |-> <<0, 0, 0, 3>>, name |-> "a", d |-> "none", ext |-> "sql"] : dr \in Dirs}
  \cup {[dir |-> dr, minor |-> <<0, 0, 0, 3>>, name |-> "a", d |-> "up", ext |-> "txt"] : dr \in Dirs}

\* the directory listings of up to n names, each name once
Listings(n) ==
  {l \in UNION {[1..k -> FileNames] : k \in 0..n} :
     \A i, j \in 1..Len(l) : i # j => l[i] # l[j]}

InitDir(n) ==
  /\ V2 \in BOOLEAN
  /\ TxPerFile = FALSE
  /\ Interrupts = FALSE
  /\ Force = FALSE
  /\ disk = <<>>
  /\ openers \in Listings(n)
  /\ rows = <<>>
  /\ txRows = NULL
  /\ op = NoOp
  /\ half = 0
  /\ pc = "dir"
  /\ prevFiles = <<>>
  /\ files = <<>>
  /\ plan = <<>>
  /\ idx = 0
  /\ stopAt = ZeroVersion
  /\ tx = "nil"
  /\ prevVersion = NULL
  /\ retErr = "nil"
  /\ sub = "none"
  /\ wErr = FALSE
  /\ wInt = FALSE
  /\ oErr = FALSE
  /\ oInt = FALSE
  /\ outItems = <<>>
  /\ outClosed = 0
  /\ lateSend = FALSE
  /\ txlog = <<>>
  /\ calls = <<>>
  /\ startRows = <<>>
  /\ upStarted = FALSE
  /\ schemas = <<>>
  /\ rot = NoRot
  /\ sync = NoSync

InitScan == InitDir(MaxNames)

\* ReadMigrationFiles(Path, ext): files holds the collection returned
ReadFiles ==
  /\ pc = "dir"
  /\ pc' = "scanned"
  /\ \E r \in {ReadMigrationFiles(V2, openers, FilenameExtension)} :
       /\ files' = r.files
       /\ retErr' = IF r.err THEN "err" ELSE "nil"
  /\ UNCHANGED <<cfgVars, dbVars, op, half, prevFiles, plan, idx, stopAt, tx, prevVersion,
                 waitVars, pipeVars, histVars, rotVars, sync>>

NextScan == ReadFiles

SpecScan == InitScan /\ [][NextScan]_vars

\* ------------------------------------------------------------------------
\* Migrator.Create (migrate/migrate.go), on a directory that holds any names
\* ------------------------------------------------------------------------
MaxDir == 2

MaxCreates == 2

InitCreate == InitDir(MaxDir)

\* File.prevPath(""): the directory a file of Version v is written to
prevPath(isV2, v) == IF ~isV2 THEN <<>> ELSE MajorString(v)

\* File.Write: os.OpenFile(O_WRONLY|O_CREATE|O_TRUNC) of a name, which is
\* added to the directory unless it is there already
Write(names, f) == IF f \in Range(names) THEN names ELSE Append(names, f)

\* Create(incMajor, name): written is the number of files written before a
\* write fails, 2 when none does; prevVersion holds the Version of the pair,
\* files the collection read, idx the number of calls
Create ==
  /\ pc = "dir"
  /\ idx < MaxCreates
  /\ \E incMajor \in BOOLEAN, name \in {"a", "b"}, written \in 0..2 :
       LET r == ReadMigrationFiles(V2, openers, FilenameExtension)
           lastVersion == IF Len(r.files) > 0 THEN r.files[Len(r.files)].ver
                          ELSE NewVersion2(V2, 0, 0)
           version == Inc(lastVersion, incMajor)
           upFile == [dir |-> prevPath(V2, version), minor |-> MinorString(version),
                      name |-> name, d |-> "up", ext |-> FilenameExtension]
           downFile == [upFile EXCEPT !.d = "down"]
       IN /\ op' = [name |-> "Create", n |-> IF incMajor THEN 1 ELSE 0, dst |-> ZeroVersion]
          /\ IF r.err
             THEN /\ retErr' = "err"
                  /\ UNCHANGED <<openers, files, prevVersion>>
             ELSE /\ files' = r.files
                  /\ prevVersion' = version
                  /\ retErr' = IF written = 2 THEN "nil" ELSE "err"
                  /\ openers' = IF written = 0 THEN openers
                                ELSE IF written = 1 THEN Write(openers, upFile)
                                ELSE Write(Write(openers, upFile), downFile)
  /\ idx' = idx + 1
  /\ UNCHANGED <<V2, TxPerFile, Interrupts, Force, disk, dbVars, half, pc, prevFiles, plan,
                 stopAt, tx, waitVars, pipeVars, histVars, rotVars, sync>>

NextCreate == Create

SpecCreate == InitCreate /\ [][NextCreate]_vars

Next ==
  \/ Up
  \/ Down
  \/ Migrate
  \/ MigrateTo
  \/ MigrateBetween
  \/ Redo
  \/ Reset
  \/ Dump
  \/ Restore
  \/ MigrateFilesEnter
  \/ UpdateFilesLoop
  \/ DriverUpdate
  \/ UpdateFilesWaitReturn
  \/ PlanLoop
  \/ DriverSendFile
  \/ DriverMigrate
  \/ PlanWaitReturn
  \/ Interrupt
  \/ InterruptOuter
  \/ Close
  \/ CloseInner
  \/ Chain
  \/ ChainRestore
  \/ DriverDump
  \/ CloseDeferred
  \/ SyncAssign
  \/ SyncReturn

Spec == Init /\ [][Next]_vars

\* every goroutine that can take a step eventually takes one: every driver
\* call returns and the consumer keeps receiving
MaxLive == 2

\* the scenarios with at most MaxLive files on disk and versions recorded
InitLive == Init /\ Len(disk) <= MaxLive /\ Len(rows) <= MaxLive

\* the steps of the goroutines of an operation that was started
Steps ==
  \/ MigrateFilesEnter
  \/ UpdateFilesLoop
  \/ DriverUpdate
  \/ UpdateFilesWaitReturn
  \/ PlanLoop
  \/ DriverSendFile
  \/ DriverMigrate
  \/ PlanWaitReturn
  \/ Close
  \/ CloseInner
  \/ Chain
  \/ ChainRestore
  \/ DriverDump
  \/ CloseDeferred
  \/ SyncAssign
  \/ SyncReturn

SpecLive == InitLive /\ [][Next]_vars /\ WF_vars(Steps)

\* ------------------------------------------------------------------------
\* Properties
\* ------------------------------------------------------------------------
VersionSet(rs) == {rs[i].ver : i \in 1..Len(rs)}

\* the versions recorded after the migrations migs, in order, from S
RECURSIVE ApplyMigs(_, _)
ApplyMigs(S, migs) ==
  IF migs = <<>> THEN S
  ELSE ApplyMigs(IF Head(migs).dir = "down" THEN S \ {Head(migs).ver}
                 ELSE S \cup {Head(migs).ver}, Tail(migs))

\* the migrations of the committed transactions of a log, in order
RECURSIVE CommittedMigs(_)
CommittedMigs(log) ==
  IF log = <<>> THEN <<>>
  ELSE (IF Head(log).status = "committed" THEN Head(log).migs ELSE <<>>)
       \o CommittedMigs(Tail(log))

HighestOf(S) ==
  IF S = {} THEN ZeroVersion
  ELSE CHOOSE v \in S : \A w \in S : Compare(w, v) <= 0

LastCall == calls[Len(calls)]

LastTx == txlog[Len(txlog)]

\* the driver reported an error for the last migration handed to it in the
\* current phase, and migrateFiles has returned
DriverFailed ==
  /\ calls # <<>>
  /\ LastCall.res = "err"
  /\ LastCall.half = half
  /\ pc \in {"ret", "chain", "done"}

\* C1 (as amended): when the driver reports an error for migration k of a
\* plan, the transaction containing k is rolled back, no migration after k is
\* handed to the driver, what earlier transactions committed stays recorded,
\* and the recorded Version is the one of the last commit (the Version before
\* the plan when nothing was committed); it is not k's Version when k is an
\* Up migration of a version that no commit recorded.
C1_ErrorRollsBackLastTransaction ==
  DriverFailed =>
    /\ \A i \in 1..(Len(calls) - 1) : calls[i].half = half => calls[i].res = "ok"
    /\ LastTx.kind = "plan"
    /\ LastTx.status = "rolledback"
    /\ LastTx.migs[Len(LastTx.migs)] = [ver |-> LastCall.ver, dir |-> LastCall.dir]
    /\ tx # "open"
    /\ txRows = NULL
    /\ VersionSet(rows) = ApplyMigs(VersionSet(startRows), CommittedMigs(txlog))
    /\ DriverVersion(rows) = HighestOf(ApplyMigs(VersionSet(startRows), CommittedMigs(txlog)))
    /\ (LastCall.dir = "up"
        /\ LastCall.ver \notin ApplyMigs(VersionSet(startRows), CommittedMigs(txlog)))
       => DriverVersion(rows) # LastCall.ver

\* an Up plan failed in its second transaction: the first one stays applied
C1_Witness ==
  /\ DriverFailed
  /\ pc = "done"
  /\ LastCall.dir = "up"
  /\ Len(txlog) >= 2
  /\ txlog[Len(txlog) - 1].kind = "plan"
  /\ txlog[Len(txlog) - 1].status = "committed"
  /\ DriverVersion(rows) # DriverVersion(startRows)

\* C1 as stated: after a driver error the recorded Version is never the
\* Version of the failed migration
C1_NeverTheFailedVersion ==
  DriverFailed => DriverVersion(rows) # LastCall.ver

\* C2: when a cancellation is observed while the driver's Migrate is in
\* flight, the open transaction is rolled back as soon as the wait returns
\* (it is never committed and is open only while the driver still runs), and
\* no later migration of the plan is started, in this transaction or another
C2_CancelRollsBack ==
  \A i \in 1..Len(txlog) :
    (txlog[i].kind = "plan" /\ txlog[i].int >= 0) =>
      /\ Len(txlog[i].migs) = txlog[i].int
      /\ txlog[i].status \in {"open", "rolledback"}
      /\ txlog[i].status = "open" =>
           (i = Len(txlog) /\ pc = "wait" /\ tx = "open" /\ half = txlog[i].half)
      /\ txlog[i].status = "rolledback" =>
           (half = txlog[i].half => (tx # "open" /\ txRows = NULL /\ pc # "wait"))
      /\ \A j \in (i + 1)..Len(txlog) : txlog[j].half # txlog[i].half

\* a plan with migrations left was cancelled during its second migration
C2_Witness ==
  /\ pc = "done"
  /\ half = 0
  /\ txlog # <<>>
  /\ LastTx.kind = "plan"
  /\ LastTx.int >= 0
  /\ LastTx.status = "rolledback"
  /\ idx = 2
  /\ Len(plan) > 2

\* C3: the output channel is closed exactly once on every termination path,
\* and nothing is sent on it after the close
C3_ClosedExactlyOnce ==
  /\ outClosed <= 1
  /\ ~lateSend
  /\ pc \in {"done", "panic"} => outClosed = 1

\* the plan transactions of a phase
PlanTxs(h) == {i \in 1..Len(txlog) : txlog[i].kind = "plan" /\ txlog[i].half = h}

\* C4: in PerFile mode every plan transaction holds exactly one migration;
\* in PerMajorVersion mode a plan transaction never holds migrations of two
\* major versions, and two consecutive plan transactions of a plan never
\* hold migrations of the same major version (no commit separates them)
C4_TransactionGrouping ==
  \A i \in 1..Len(txlog) :
    txlog[i].kind = "plan" =>
      /\ Len(txlog[i].migs) >= 1
      /\ TxPerFile => Len(txlog[i].migs) = 1
      /\ \A a, b \in 1..Len(txlog[i].migs) :
           Major(txlog[i].migs[a].ver) = Major(txlog[i].migs[b].ver)
      /\ \A j \in PlanTxs(txlog[i].half) :
           (~TxPerFile /\ j > i /\ ~\E k \in PlanTxs(txlog[i].half) : i < k /\ k < j) =>
             /\ txlog[i].status = "committed"
             /\ Major(txlog[i].migs[Len(txlog[i].migs)].ver) # Major(txlog[j].migs[1].ver)

\* PerMajorVersion: a committed transaction of two migrations, then another
C4_Witness ==
  /\ ~TxPerFile
  /\ pc = "done"
  /\ \E i, j \in PlanTxs(0) :
       /\ i < j
       /\ Len(txlog[i].migs) = 2
       /\ txlog[i].status = "committed"
       /\ txlog[j].status = "committed"

\* the number of runs of consecutive migrations of one major version
Runs(p) ==
  IF Len(p) = 0 THEN 0
  ELSE 1 + Cardinality({i \in 1..(Len(p) - 1) : Major(p[i].ver) # Major(p[i + 1].ver)})

\* the number of committed transactions of a kind in the current phase
Commits(kinds) ==
  Cardinality({i \in 1..Len(txlog) : /\ txlog[i].half = half
                                     /\ txlog[i].kind \in kinds
                                     /\ txlog[i].status = "committed"})

\* migrateFiles has applied the whole of a non-empty plan without error
PlanCompleted ==
  /\ pc = "ret"
  /\ retErr = "nil"
  /\ Len(plan) > 0
  /\ idx > Len(plan)

\* C5 (as amended): when a plan completes without error, the number of
\* commits of the transactions opened by the plan loop is the number of
\* migrations in PerFile mode and the number of runs of one major version in
\* PerMajorVersion mode; an Up plan performs one more commit before them,
\* that of the transaction in which the recorded files are refreshed
C5_CommitsOfPlanTransactions ==
  PlanCompleted =>
    /\ Commits({"plan"}) = IF TxPerFile THEN Len(plan) ELSE Runs(plan)
    /\ Commits({"update"}) = IF plan[1].dir = "down" THEN 0 ELSE 1

\* 4 Up migrations spanning 2 major versions, PerMajorVersion: 2 commits of
\* plan transactions, 3 commits in all
C5_Witness ==
  /\ PlanCompleted
  /\ ~TxPerFile
  /\ Len(plan) = 4
  /\ Runs(plan) = 2
  /\ plan[1].dir = "up"
  /\ Commits({"plan"}) = 2
  /\ Commits({"update", "plan"}) = 3

\* C5 as stated: the number of commits performed while the plan is applied
\* is the number of migrations (PerFile) or of runs (PerMajorVersion)
C5_CommitsWhileApplying ==
  PlanCompleted =>
    Commits({"update", "plan"}) = IF TxPerFile THEN Len(plan) ELSE Runs(plan)

\* C6: the Up half of Redo and Reset is started only after the Down half's
\* channel is closed, and never when the Down half emitted an error or was
\* cancelled; then the output channel is closed and no Up migration ran
C6_UpHalfOnlyAfterCleanDownHalf ==
  /\ upStarted =>
       /\ op.name \in {"Redo", "Reset"}
       /\ ~oErr
       /\ ~oInt
       /\ \A i \in 1..Len(txlog) : txlog[i].half = 1 => txlog[i].int < 0
  /\ (op.name \in {"Redo", "Reset"} /\ pc = "done" /\ ~upStarted) =>
       /\ outClosed = 1
       /\ \A c \in 1..Len(calls) : calls[c].dir = "down"

\* the version of position i of a contiguous collection: 0/1 first, then the
\* next minor or (versioned mode) minor 1 of the next major
Follows(isV2, s, i) ==
  IF i = 1 THEN s[1].ver = NewVersion2(isV2, 0, 1)
  ELSE \/ s[i].ver = <<Major(s[i - 1].ver), Minor(s[i - 1].ver) + 1>>
       \/ isV2 /\ s[i].ver = <<Major(s[i - 1].ver) + 1, 1>>

Contiguous(isV2, mf) == \A i \in 1..Len(mf) : Follows(isV2, SortAsc(mf), i)

\* an Up file on disk differs from the one recorded for its version
ContentDrift(mf, rs) ==
  \E i \in 1..Len(mf), j \in 1..Len(rs) : mf[i].ver = rs[j].ver /\ mf[i].up # rs[j].up

\* C7: when force is off and an on-disk Up file differs from the recorded Up
\* content of its version, or the on-disk files are not contiguous, Up, Down,
\* Migrate and MigrateTo fail with an error before any migration is handed
\* to the driver and leave the database as it was
C7_ValidationStopsOperation ==
  (/\ op.name \in {"Up", "Down", "Migrate", "MigrateTo"}
   /\ ~Force
   /\ ContentDrift(disk, startRows) \/ ~Contiguous(V2, disk)) =>
    /\ pc \in {"ret", "done"}
    /\ calls = <<>>
    /\ txlog = <<>>
    /\ tx = "nil"
    /\ rows = startRows
    /\ pc = "ret" => retErr = "err"
    /\ pc = "done" => (outItems = <<"err">> /\ outClosed = 1)

\* a changed file of an applied version, more files to apply
C7_Witness ==
  /\ op.name = "Up"
  /\ ~Force
  /\ ContentDrift(disk, startRows)
  /\ Contiguous(V2, disk)
  /\ Len(disk) > Len(startRows)
  /\ pc = "done"
  /\ outItems = <<"err">>

\* C8: when the last on-disk Version is behind the recorded Version, Up,
\* Down, Migrate and MigrateTo fail before any migration is handed to the
\* driver
C8_FilesBehindDatabaseFails ==
  (/\ op.name \in {"Up", "Down", "Migrate", "MigrateTo"}
   /\ Compare(LastVersion(SortAsc(disk)), DriverVersion(startRows)) < 0
   /\ pc = "done") =>
    /\ calls = <<>>
    /\ \E i \in 1..Len(outItems) : outItems[i] = "err"

\* C9: a rotation leaves every schema name as it was unless the drop and all
\* the renames succeeded and the commit succeeded; then the names are
\* rotated as a whole
C9_RotationIsAtomic ==
  rot.pc \notin {"off", "idle"} =>
    /\ \/ schemas = rot.pre
       \/ /\ rot.pc = "done"
          /\ ~rot.err
          /\ rot.i > Len(rot.slots)
          /\ schemas = Rotated(rot.pre, rot.slots)
    /\ (rot.pc = "done" /\ rot.err) => schemas = rot.pre

\* a rename failed after the drop and a rename had changed the schemas
\* inside the transaction
C9_Witness ==
  /\ rot.pc = "done"
  /\ rot.err
  /\ rot.i >= 3
  /\ rot.i <= Len(rot.slots)
  /\ Rotated(rot.pre, rot.slots) # rot.pre
  /\ \E n \in SchemaNames : rot.pre[n] # 0 /\ n = rot.slots[1]
  /\ schemas = rot.pre

\* a cancellation was observed while the operation ran
CancelObserved == oInt \/ \E i \in 1..Len(txlog) : txlog[i].int >= 0

\* C10: an operation during which a cancellation was observed ends with at
\* least one error item on its output channel
C10_CancelledRunReportsError ==
  (pc = "done" /\ CancelObserved) => \E i \in 1..Len(outItems) : outItems[i] = "err"

\* no error item was sent on the output channel
NoErrorItem == \A i \in 1..Len(outItems) : outItems[i] # "err"

\* the on-disk files with a Version above v, in ascending order
FilesAbove(v) ==
  LET Above(f) == Compare(f.ver, v) > 0
  IN SelectSeq(SortAsc(disk), Above)

\* C11: after an Up that emits no error, every on-disk migration above the
\* Version the database had before has been executed exactly once, Up, in
\* ascending order, and the database Version is the last on-disk Version
C11_UpAppliesAllPending ==
  (op.name = "Up" /\ pc = "done" /\ NoErrorItem) =>
    /\ calls = [i \in 1..Len(FilesAbove(DriverVersion(startRows))) |->
                  [ver |-> FilesAbove(DriverVersion(startRows))[i].ver, dir |-> "up",
                   half |-> 0, res |-> "ok"]]
    /\ DriverVersion(rows) = LastVersion(SortAsc(disk))

\* exactly the first k on-disk versions are recorded, with the on-disk content
FirstApplied(k) ==
  /\ k \in 0..Len(disk)
  /\ Len(startRows) = k
  /\ \A i \in 1..k : /\ startRows[i].ver = SortAsc(disk)[i].ver
                     /\ startRows[i].up = SortAsc(disk)[i].up

\* the operation has ended with no error item and no cancellation observed
Succeeded == pc = "done" /\ NoErrorItem /\ ~CancelObserved

\* the driver calls of a plain operation that runs the on-disk versions
\* from position a to position b (upwards or downwards) in direction d
CallsOver(a, b, d) ==
  LET n == IF a <= b THEN b - a + 1 ELSE a - b + 1
  IN [i \in 1..n |-> [ver |-> SortAsc(disk)[IF a <= b THEN a + i - 1 ELSE a - i + 1].ver,
                      dir |-> d, half |-> 0, res |-> "ok"]]

VersionAt(k) == IF k <= 0 THEN ZeroVersion ELSE SortAsc(disk)[k].ver

NoDriverError == \A c \in 1..Len(calls) : calls[c].res = "ok"

\* C13: after a Reset that emits no error, the database Version is the last
\* on-disk Version, whether nothing, some or all of the on-disk versions
\* were applied before (stated for the runs in which Reset's own wait on
\* the Down half observed no cancellation and the driver reported no error)
C13_ResetEndsAtLastVersion ==
  (/\ op.name = "Reset"
   /\ \E k \in 0..Len(disk) : FirstApplied(k)
   /\ pc = "done"
   /\ ~oInt
   /\ NoDriverError
   /\ NoErrorItem) =>
    DriverVersion(rows) = LastVersion(SortAsc(disk))

\* C14: after a Redo that emits no error, with at least one version applied
\* before, the database Version is the one it was before: the last applied
\* migration was run Down and the same migration was run Up again (stated
\* for the runs in which Redo's own wait on the Down half observed no
\* cancellation and the driver reported no error)
C14_RedoKeepsVersion ==
  \A k \in 1..Len(disk) :
    (/\ op.name = "Redo"
     /\ FirstApplied(k)
     /\ pc = "done"
     /\ ~oInt
     /\ NoDriverError
     /\ NoErrorItem) =>
      DriverVersion(rows) = DriverVersion(startRows)

\* the first recorded Up file has no content
FirstRecordedEmpty == Len(prevFiles) > 0 /\ SortAsc(prevFiles)[1].up = ""

\* migrateFiles is entered with an empty plan
EmptyPlanStep == pc = "mf" /\ Len(plan) = 0 /\ pc' # pc

\* C15 (as amended): when the resolved plan is empty, migrateFiles makes no
\* driver Migrate call, sends nothing and leaves the stored records as they
\* are; unless the first recorded Up file has no content, it begins no
\* transaction and returns no error; when the first recorded Up file has no
\* content it begins the transaction in which the recorded files are
\* refreshed
C15_EmptyPlanIsNoOp ==
  [][EmptyPlanStep =>
       /\ calls' = calls
       /\ rows' = rows
       /\ outItems' = outItems
       /\ IF FirstRecordedEmpty
          THEN \/ pc' = "upd" /\ tx' = "open" /\ Len(txlog') = Len(txlog) + 1
               \/ pc' = "ret" /\ retErr' = "err" /\ tx' = "nil"
          ELSE /\ pc' = "ret"
               /\ retErr' = "nil"
               /\ tx' = "nil"
               /\ txlog' = txlog]_vars

\* Migrate(0) on a database with recorded versions has returned
C15_Witness ==
  /\ op.name = "Migrate"
  /\ op.n = 0
  /\ Len(rows) > 0
  /\ Len(plan) = 0
  /\ pc = "ret"
  /\ retErr = "nil"
  /\ txlog = <<>>
  /\ calls = <<>>

\* C15 as stated: whenever the resolved plan is empty, no transaction is
\* begun, no driver call is made, no error is returned and the stored
\* records stay as they are
C15_EmptyPlanNeverBegins ==
  [][EmptyPlanStep =>
       /\ calls' = calls
       /\ rows' = rows
       /\ outItems' = outItems
       /\ pc' = "ret"
       /\ retErr' = "nil"
       /\ tx' = "nil"
       /\ txlog' = txlog]_vars

\* Between was applied to the on-disk files and the recorded ones
BetweenReturned == pc = "resolved" /\ op.name = "Between"

\* the last recorded Version is not above the last on-disk Version
Advancing == Compare(LastVersion(GetMigrationFiles(rows)), LastVersion(SortAsc(disk))) <= 0

\* the recorded files are, position by position, the versions of the first on-disk files
SameBaseVersions ==
  /\ Len(disk) >= Len(rows)
  /\ \A i \in 1..Len(rows) : SortAsc(disk)[i].ver = SortAsc(rows)[i].ver

\* C16: with force off, non-empty current files and the last recorded Version
\* not above the last current Version, Between returns an error and no plan
\* whenever a shared Version's Up content differs, a content-mismatch error
\* when the current files are contiguous and start with the recorded
\* versions; when the last recorded Version is above the last current one
\* nothing is validated and Between returns without error; with force on and
\* non-empty current files Between returns without error
C16_BetweenValidation ==
  (BetweenReturned /\ Len(disk) > 0) =>
    /\ Force => retErr = "ok"
    /\ ~Advancing => retErr = "ok"
    /\ (~Force /\ Advancing /\ ContentDrift(disk, rows)) =>
         /\ retErr \in {"length", "missing", "version", "content"}
         /\ plan = <<>>
         /\ (Contiguous(V2, disk) /\ SameBaseVersions) => retErr = "content"

\* drift below the last recorded Version, files beyond it
C16_Witness ==
  /\ BetweenReturned
  /\ ~Force
  /\ Advancing
  /\ ContentDrift(disk, rows)
  /\ Len(disk) > Len(rows)
  /\ retErr = "content"
  /\ plan = <<>>

\* C16 as stated: with force off a differing Up content of a shared Version
\* always gives a content-mismatch error
C16_DriftAlwaysContentError ==
  (BetweenReturned /\ Len(disk) > 0) =>
    /\ Force => retErr = "ok"
    /\ (~Force /\ ContentDrift(disk, rows)) => retErr = "content"

\* the plan p consists of exactly the files of mf above v, each once, in
\* direction d, with the content and origin they have in mf
PlanOfFilesAbove(p, mf, v, d) ==
  /\ {p[i].ver : i \in 1..Len(p)} = {mf[j].ver : j \in {k \in 1..Len(mf) : Compare(mf[k].ver, v) > 0}}
  /\ \A i \in 1..Len(p) :
       /\ p[i].dir = d
       /\ \E j \in 1..Len(mf) : mf[j].ver = p[i].ver /\ mf[j].up = p[i].up /\ mf[j].src = p[i].src
  /\ \A i \in 1..(Len(p) - 1) :
       IF d = "up" THEN Compare(p[i].ver, p[i + 1].ver) < 0
                   ELSE Compare(p[i].ver, p[i + 1].ver) > 0

Successor(v, w) ==
  \/ v = <<Major(w), Minor(w) + 1>>
  \/ v = <<Major(w) + 1, 1>>

\* every recorded Version other than the lowest is the successor of a recorded one
GapFree(rs) ==
  \A i \in 1..Len(rs) :
    \/ \A j \in 1..Len(rs) : Compare(rs[i].ver, rs[j].ver) <= 0
    \/ \E j \in 1..Len(rs) : Successor(rs[i].ver, rs[j].ver)

\* the last call was an Up of a Version that does not follow the highest recorded one
UpOutOfOrder ==
  /\ pc = "driver"
  /\ Len(calls) = 1
  /\ calls[1].dir = "up"
  /\ ~Successor(calls[1].ver, DriverVersion(startRows))

\* C18: in versioned mode, after any sequence of driver Migrate calls the
\* recorded versions form a gap-free chain, and an Up of a Version that is
\* not the successor of the highest recorded Version is rejected with an
\* error and records nothing
C18_ChainEnforcedAtWrite ==
  (V2 /\ pc = "driver") =>
    /\ GapFree(rows)
    /\ UpOutOfOrder => (retErr = "err" /\ calls[1].res = "err" /\ rows = startRows)

\* no two names of sc refer to the same schema
DistinctSchemas(sc) ==
  \A n, m \in SchemaNames : (n # m /\ sc[n] # 0) => sc[n] # sc[m]

RestoreRotation == rot.pc \notin {"off", "idle"} /\ rot.slots = RestoreSlots

\* C19: a restore rotation that succeeded has discarded the schema that was
\* named live_bak, left the name live_bak on the schema that was named live
\* and the name live on the schema that was named live_tmp, and left no
\* schema named live_tmp; at no point of the rotation, inside its
\* transaction or outside, do two names refer to the same schema
C19_RestoreRotation ==
  RestoreRotation =>
    /\ DistinctSchemas(schemas)
    /\ rot.pc \in {"drop", "rename", "end"} => DistinctSchemas(rot.tx)
    /\ (rot.pc = "done" /\ ~rot.err) =>
         /\ rot.pre["live"] # 0
         /\ rot.pre["tmp"] # 0
         /\ schemas["bak"] = rot.pre["live"]
         /\ schemas["live"] = rot.pre["tmp"]
         /\ schemas["tmp"] = 0
         /\ \A n \in SchemaNames : rot.pre["bak"] # 0 => schemas[n] # rot.pre["bak"]

\* all three names were taken before the rotation
C19_Witness ==
  /\ RestoreRotation
  /\ rot.pc = "done"
  /\ ~rot.err
  /\ rot.pre["bak"] # 0
  /\ schemas["bak"] = rot.pre["live"]
  /\ schemas["live"] = rot.pre["tmp"]
  /\ schemas["bak"] # schemas["live"]
  /\ schemas["tmp"] = 0

\* C20: after ToLastFrom, ToFirstFrom, DownTo, FromTo, From or Between the
\* receiver collection holds the same elements in the same order as before
\* the call, and so does prevFiles
C20_InputsNotMutated ==
  pc = "resolved" =>
    /\ files = disk
    /\ prevFiles = GetMigrationFiles(rows)

\* MissingVersion was applied to the on-disk files
MissingVersionReturned == pc = "resolved" /\ op.name = "MissingVersion"

\* C21: for the empty collection and for every ascending collection that
\* starts at 0/1 and in which each element is the successor of the previous
\* one, MissingVersion returns none
C21_ContiguousHasNoMissingVersion ==
  (MissingVersionReturned /\ Contiguous(V2, disk)) => prevVersion = NULL

\* four files over two majors
C21_Witness ==
  /\ MissingVersionReturned
  /\ V2
  /\ Len(disk) = 4
  /\ Contiguous(V2, disk)
  /\ Major(disk[2].ver) = 0
  /\ Major(disk[3].ver) = 1
  /\ prevVersion = NULL

\* the first position of an ascending collection that does not follow
FirstGap(isV2, mf) ==
  CHOOSE i \in 1..Len(mf) : ~Follows(isV2, mf, i) /\ \A j \in 1..(i - 1) : Follows(isV2, mf, j)

\* the Version missing there: 0/1 at the start, else the next minor when the
\* file found is of the same major as the one before it, minor 1 of the next
\* major otherwise
FirstMissing(isV2, mf) ==
  LET i == FirstGap(isV2, mf)
  IN IF i = 1 THEN NewVersion2(isV2, 0, 1)
     ELSE IF Major(mf[i].ver) = Major(mf[i - 1].ver)
          THEN <<Major(mf[i - 1].ver), Minor(mf[i - 1].ver) + 1>>
          ELSE <<Major(mf[i - 1].ver) + 1, 1>>

\* C22: for an ascending collection with a gap MissingVersion returns the
\* smallest Version missing from the contiguous sequence (0/2 for 0/1, 0/3),
\* in legacy mode and in versioned mode
C22_FirstMissingVersion ==
  (MissingVersionReturned /\ ~Contiguous(V2, disk)) =>
    prevVersion = FirstMissing(V2, disk)

\* the plan p consists of exactly the files of mf above lo and not above hi,
\* each once, in direction d, ascending for Up and descending for Down
PlanOfFilesBetween(p, mf, lo, hi, d) ==
  /\ {p[i].ver : i \in 1..Len(p)} =
       {mf[j].ver : j \in {k \in 1..Len(mf) : Compare(mf[k].ver, lo) > 0 /\ Compare(mf[k].ver, hi) <= 0}}
  /\ \A i \in 1..Len(p) : p[i].dir = d
  /\ \A i \in 1..(Len(p) - 1) :
       IF d = "up" THEN Compare(p[i].ver, p[i + 1].ver) < 0
                   ELSE Compare(p[i].ver, p[i + 1].ver) > 0

\* FromTo was applied to the on-disk files: prevVersion is start, op.dst is stop
FromToReturned == pc = "resolved" /\ op.name = "FromTo"

\* C23: FromTo(start, stop) returns the empty plan when start = stop, the Up
\* migrations with start < Version <= stop in ascending order when
\* start < stop, and the Down migrations with stop < Version <= start in
\* descending order when start > stop
C23_FromToPlan ==
  FromToReturned =>
    IF Compare(prevVersion, op.dst) = 0 THEN plan = <<>>
    ELSE IF Compare(prevVersion, op.dst) < 0
         THEN PlanOfFilesBetween(plan, disk, prevVersion, op.dst, "up")
         ELSE PlanOfFilesBetween(plan, disk, op.dst, prevVersion, "down")

\* From was applied to the on-disk files: op.dst is the Version, op.n the count
FromReturned == pc = "resolved" /\ op.name = "From"

\* the versions on disk above v, and those not above v
VersionsAbove(v) == {disk[j].ver : j \in {k \in 1..Len(disk) : Compare(disk[k].ver, v) > 0}}

VersionsUpTo(v) == {disk[j].ver : j \in {k \in 1..Len(disk) : Compare(disk[k].ver, v) <= 0}}

PlanVersions == {plan[i].ver : i \in 1..Len(plan)}

\* C24: From(v, N) with N > 0 returns the min(N, available) smallest
\* migrations with Version > v, all Up, ascending; with N < 0 the
\* min(|N|, available) largest migrations with Version <= v, all Down,
\* descending; with N = 0 nothing
C24_FromPlan ==
  FromReturned =>
    IF op.n = 0 THEN plan = <<>>
    ELSE IF op.n > 0
    THEN /\ Len(plan) = Min(op.n, Cardinality(VersionsAbove(op.dst)))
         /\ PlanVersions \subseteq VersionsAbove(op.dst)
         /\ \A w \in VersionsAbove(op.dst) \ PlanVersions :
              \A x \in PlanVersions : Compare(x, w) < 0
         /\ \A i \in 1..Len(plan) : plan[i].dir = "up"
         /\ \A i \in 1..(Len(plan) - 1) : Compare(plan[i].ver, plan[i + 1].ver) < 0
    ELSE /\ Len(plan) = Min(0 - op.n, Cardinality(VersionsUpTo(op.dst)))
         /\ PlanVersions \subseteq VersionsUpTo(op.dst)
         /\ \A w \in VersionsUpTo(op.dst) \ PlanVersions :
              \A x \in PlanVersions : Compare(x, w) > 0
         /\ \A i \in 1..Len(plan) : plan[i].dir = "down"
         /\ \A i \in 1..(Len(plan) - 1) : Compare(plan[i].ver, plan[i + 1].ver) > 0

\* two steps back from the middle of four files
C24_Witness ==
  /\ FromReturned
  /\ op.n = 0 - 2
  /\ Len(disk) = 4
  /\ Cardinality(VersionsUpTo(op.dst)) = 3
  /\ Len(plan) = 2
  /\ plan[1].ver = op.dst
  /\ plan[2].dir = "down"

\* ToLastFrom(v) was applied to the on-disk files; ToFirstFrom(v) applied
\* next to the same collection
ToLastFromReturned == pc = "resolved" /\ op.name = "ToLastFrom"

ToFirstFromNext == ToFirstFrom(files, op.dst).plan

VersionsOf(p) == {p[i].ver : i \in 1..Len(p)}

\* C25: the Versions of ToLastFrom(v) (all Up, above v, ascending) and of
\* ToFirstFrom(v) (all Down, not above v, descending) are disjoint and
\* together are the Versions of the collection; when v is the maximum
\* Version ToFirstFrom(v) covers the collection and ToLastFrom(v) is empty
C25_ToLastToFirstPartition ==
  ToLastFromReturned =>
    /\ VersionsOf(plan) \cap VersionsOf(ToFirstFromNext) = {}
    /\ VersionsOf(plan) \cup VersionsOf(ToFirstFromNext) = VersionsOf(disk)
    /\ Len(plan) + Len(ToFirstFromNext) = Len(disk)
    /\ \A i \in 1..Len(plan) : plan[i].dir = "up" /\ Compare(plan[i].ver, op.dst) > 0
    /\ \A i \in 1..(Len(plan) - 1) : Compare(plan[i].ver, plan[i + 1].ver) < 0
    /\ \A i \in 1..Len(ToFirstFromNext) :
         ToFirstFromNext[i].dir = "down" /\ Compare(ToFirstFromNext[i].ver, op.dst) <= 0
    /\ \A i \in 1..(Len(ToFirstFromNext) - 1) :
         Compare(ToFirstFromNext[i].ver, ToFirstFromNext[i + 1].ver) > 0
    /\ (Len(disk) > 0 /\ op.dst = DriverVersion(disk)) =>
         (plan = <<>> /\ VersionsOf(ToFirstFromNext) = VersionsOf(disk))

\* v in the middle of four files
C25_Witness ==
  /\ ToLastFromReturned
  /\ Len(disk) = 4
  /\ Len(plan) = 2
  /\ Len(ToFirstFromNext) = 2
  /\ ToFirstFromNext[1].ver = op.dst

\* From(v, +N) returned exactly N migrations; From(w, -N) applied next to
\* the same collection, w being the Version of the last of them
FromForwardFull == FromReturned /\ op.n > 0 /\ Len(plan) = op.n

FromBackward == From(files, plan[Len(plan)].ver, 0 - op.n)

\* C26: if From(v, +N) returns exactly N migrations and w is the Version of
\* the last one, From(w, -N) returns the same N Versions in reverse order as
\* Down migrations; they are the first N elements of ToFirstFrom(w) and all
\* have a Version above v
C26_FromForwardBackward ==
  FromForwardFull =>
    /\ Len(FromBackward.plan) = op.n
    /\ \A i \in 1..op.n :
         /\ FromBackward.plan[i].ver = plan[op.n + 1 - i].ver
         /\ FromBackward.plan[i].dir = "down"
         /\ Compare(FromBackward.plan[i].ver, op.dst) > 0
    /\ FromBackward.plan =
         SubSeq(ToFirstFrom(FromBackward.recv, plan[Len(plan)].ver).plan, 1, op.n)

\* two steps forward from the first of four files, then two back
C26_Witness ==
  /\ FromForwardFull
  /\ op.n = 2
  /\ Len(disk) = 4
  /\ op.dst = disk[1].ver
  /\ FromBackward.plan[1].ver = disk[3].ver
  /\ FromBackward.plan[2].ver = disk[2].ver
  /\ Len(ToFirstFrom(FromBackward.recv, disk[3].ver).plan) = 3

\* the name follows the filename grammar of the mode
Matches(isV2, f) ==
  /\ IF isV2 THEN IsNumber(f.dir) ELSE f.dir = <<>>
  /\ IsNumber(f.minor)
  /\ f.d \in {"up", "down"}
  /\ f.ext = FilenameExtension

\* the Version a name that follows the grammar claims
ClaimedVersion(isV2, f) ==
  IF isV2 THEN <<ParseUint(f.dir), ParseUint(f.minor)>> ELSE <<0, ParseUint(f.minor)>>

\* two names of the directory claim the same Version and direction
DuplicateClaim ==
  \E i, j \in 1..Len(openers) :
    /\ i # j
    /\ Matches(V2, openers[i])
    /\ Matches(V2, openers[j])
    /\ ClaimedVersion(V2, openers[i]) = ClaimedVersion(V2, openers[j])
    /\ openers[i].d = openers[j].d

\* the names of the directory that claim Version v in direction d
Claiming(v, d) ==
  {f \in Range(openers) : Matches(V2, f) /\ ClaimedVersion(V2, f) = v /\ f.d = d}

\* the directory listed in another order
Reorderings ==
  {[i \in 1..Len(openers) |-> openers[q[i]]] :
     q \in {r \in [1..Len(openers) -> 1..Len(openers)] :
              \A a, b \in 1..Len(openers) : a # b => r[a] # r[b]}}

\* C27: the scan fails exactly when two names that follow the grammar claim
\* the same Version and direction; otherwise it returns one MigrationFile per
\* Version claimed by a name that follows the grammar, made of those names,
\* in ascending order, the other names being skipped; the result does not
\* depend on the order in which the names are listed
C27_Discovery ==
  pc = "scanned" =>
    /\ retErr = "err" <=> DuplicateClaim
    /\ retErr = "nil" =>
         /\ VersionsOf(files) = {ClaimedVersion(V2, f) : f \in {g \in Range(openers) : Matches(V2, g)}}
         /\ \A i \in 1..(Len(files) - 1) : Compare(files[i].ver, files[i + 1].ver) < 0
         /\ \A i \in 1..Len(files) :
              /\ Claiming(files[i].ver, "up") = IF files[i].up = NULL THEN {} ELSE {files[i].up}
              /\ Claiming(files[i].ver, "down") = IF files[i].down = NULL THEN {} ELSE {files[i].down}
    /\ \A l \in Reorderings :
         ReadMigrationFiles(V2, l, FilenameExtension) = [err |-> retErr = "err", files |-> files]

\* three names, the higher Version listed first, one name skipped
C27_Witness ==
  /\ pc = "scanned"
  /\ retErr = "nil"
  /\ Len(openers) = 3
  /\ Len(files) = 2
  /\ Matches(V2, openers[1])
  /\ ~Matches(V2, openers[2])
  /\ Matches(V2, openers[3])
  /\ Compare(ClaimedVersion(V2, openers[1]), ClaimedVersion(V2, openers[3])) > 0
  /\ files[1].ver = ClaimedVersion(V2, openers[3])

\* a call of Create that returned no error
CreateSucceeded == idx' = idx + 1 /\ retErr' = "nil"

\* the Versions found by reading a directory again
VersionsRead(names) == VersionsOf(ReadMigrationFiles(V2, names, FilenameExtension).files)

HighestRead(names) ==
  IF VersionsRead(names) = {} THEN ZeroVersion
  ELSE CHOOSE v \in VersionsRead(names) : \A w \in VersionsRead(names) : Compare(v, w) >= 0

\* C29: after a Create that succeeded, reading the directory again succeeds
\* and yields the Versions it held before plus one new Version, the
\* successor of the highest of them (next minor, or minor 1 of the next
\* major when incMajor is set), above all of them; no existing file is
\* written over; in legacy mode and in versioned mode
C29_CreateAddsOneVersion ==
  [][CreateSucceeded =>
       /\ ~ReadMigrationFiles(V2, openers', FilenameExtension).err
       /\ Cardinality(VersionsRead(openers')) = Cardinality(VersionsRead(openers)) + 1
       /\ VersionsRead(openers) \subseteq VersionsRead(openers')
       /\ \A v \in VersionsRead(openers') \ VersionsRead(openers) :
            /\ v = NewVersion2(V2, Major(Inc(HighestRead(openers), op'.n = 1)),
                                Minor(Inc(HighestRead(openers), op'.n = 1)))
            /\ \A w \in VersionsRead(openers) : Compare(v, w) > 0
       /\ Len(openers') = Len(openers) + 2]_vars

\* Restore leaves its wait on the Up phase and goes on to TruncateTables
\* and to the driver's Restore
RestoreTruncates == pc = "chain" /\ op.name = "Restore" /\ pc' # "done"

\* Restore leaves its wait on the Up phase and returns
RestoreGivesUp == pc = "chain" /\ op.name = "Restore" /\ pc' = "done"

\* a cancellation was observed during the Up phase, by migrateFiles' wait or
\* by Restore's own
UpPhaseCancelled ==
  oInt \/ \E i \in 1..Len(txlog) : txlog[i].half = 1 /\ txlog[i].int # -1

\* the Up phase returned or sent an error
UpPhaseError == retErr = "err" \/ oErr

\* every migration of the Up plan is recorded
UpPlanApplied == \A i \in 1..Len(plan) : HasRow(rows, plan[i].ver)

\* C28: Restore truncates the tables and loads the dumped data only after
\* the Up plan built from the dumped scripts, from the zero Version, has
\* completed without error and without cancellation; when the Up phase
\* fails with an error Restore emits an error and truncates and loads nothing
C28_RestoreAfterCompleteUp ==
  [][/\ RestoreTruncates =>
          ~UpPhaseError /\ ~UpPhaseCancelled /\ UpPlanApplied
     /\ (pc = "chain" /\ op.name = "Restore" /\ UpPhaseError /\ ~oInt) =>
          RestoreGivesUp /\ "err" \in Range(outItems')]_vars

\* the transactions of txlog that are open
OpenTxs(log) == {i \in 1..Len(log) : log[i].status = "open"}

\* migrateFiles is running
InMigrateFiles == pc \in {"mf", "upd", "updwait", "loop", "wait"}

\* the handle tx is open exactly when the last transaction begun is
TxOwned == (tx = "open") <=> (txlog # <<>> /\ txlog[Len(txlog)].status = "open")

\* C30: during a run of migrateFiles at most one transaction is open at a
\* time; a transaction that was ended (committed or rolled back) stays as it
\* was ended and its handle is not used again; no transaction is open when
\* migrateFiles returns, after a success, a driver error, a Begin or Commit
\* error or a cancellation
C30_TransactionLifetime ==
  /\ [](Cardinality(OpenTxs(txlog)) <= 1 /\ TxOwned)
  /\ [](pc \in {"ret", "chain", "done"} => OpenTxs(txlog) = {})
  /\ [][/\ \A i \in 1..Len(txlog) :
             txlog[i].status # "open" => txlog'[i].status = txlog[i].status
        /\ (InMigrateFiles /\ tx = "ended") => tx' = "ended"]_vars

\* WaitAndRedirect reports, in updateFiles before an Up plan, that the
\* driver's UpdateFiles sent an error or that a cancellation was observed
UpdateFilesFails ==
  pc = "updwait" /\ sub = "closed" /\ ~WaitAndRedirect /\ Len(plan) > 0

\* the transaction i of txlog is an updateFiles pass, before a plan, that
\* was rolled back
UpdateRolledBack(i) ==
  txlog[i].kind = "update" /\ txlog[i].status = "rolledback" /\ Len(plan) > 0

\* C31: on an Up plan, when the updateFiles pass before the plan emits an
\* error or is cancelled, its transaction is rolled back and migrateFiles
\* stops: no migration of the plan is executed and no further Begin or
\* Commit is issued
C31_FailedUpdateStopsPlan ==
  /\ [][UpdateFilesFails =>
          /\ txlog'[Len(txlog)].status = "rolledback"
          /\ pc' = "ret"]_vars
  /\ [](\A i \in 1..Len(txlog) : UpdateRolledBack(i) =>
          /\ \A j \in 1..Len(txlog) : txlog[j].half = txlog[i].half => j <= i
          /\ \A c \in 1..Len(calls) : calls[c].half # txlog[i].half)
  /\ [][(UpdateFilesFails \/ (pc = "loop" /\ tx = "ended")) => tx' = "ended"]_vars

\* a driver sub-operation (Migrate or UpdateFiles) started by migrateFiles
\* is running: its channel is not closed yet
DriverRunning == sub \in {"start", "sent"}

\* the step begins, commits or rolls back a transaction
TxCall ==
  \/ Len(txlog') > Len(txlog)
  \/ tx' # tx
  \/ rows' # rows
  \/ \E i \in 1..Len(txlog) : txlog'[i].status # txlog[i].status

\* the step starts a driver call
DriverCall == sub' = "start" /\ sub # "start"

\* C32: the connection and its open transaction are never used by two
\* tasks at once: migrateFiles issues Begin, Commit or Rollback, or starts
\* the next driver call, only when the previous driver sub-operation has
\* closed its channel, also when a cancellation arrived while it was running
C32_NoConcurrentUse ==
  [][(TxCall \/ DriverCall) => ~DriverRunning]_vars

\* a cancellation arrived while the driver's call was running and the
\* transaction was rolled back once the call had closed its channel
C32_Witness ==
  /\ wInt
  /\ sub = "none"
  /\ tx = "ended"
  /\ txlog[Len(txlog)].status = "rolledback"
  /\ txlog[Len(txlog)].int >= 0

\* C33: MigrateBetweenSync and MigrateToSync return the Versions computed by
\* MigrateBetween / MigrateTo for that run: when the Sync call returns, the
\* worker has assigned curVersion and dstVersion (resp. version)
C33_SyncReturnsComputedVersions ==
  sync.reader = "returned" => sync.ret = sync.res

\* the operations with a Sync form that runs plans
PlanOps == {"Up", "Down", "Migrate", "MigrateTo", "MigrateBetween", "Redo", "Reset"}

\* C34: provided every driver call returns and the consumer keeps
\* receiving, every operation (Up, Down, Migrate, MigrateTo, MigrateBetween,
\* Redo, Reset) eventually closes its output channel, on success, on error
\* and on cancellation
C34_EventuallyClosed ==
  (op.name \in PlanOps) ~> (outClosed >= 1)

\* the schema the copied migrator works on: schemas[2] of StartRestore,
\* schemas[2] of StartRevert
Target == IF op.name = "SchemaRestore" THEN "tmp" ELSE "bak"

\* the migration of the copied migrator's schema went through: its Version
\* is the last on-disk Version
MigratedThrough == Compare(DriverVersion(rows), LastVersion(SortAsc(disk))) = 0

\* a step before the rotation returns an error
StepFails == pc \in {"schema", "restoresync", "migrateschema"} /\ retErr' = "err"

\* C35: SchemaMigrator.Restore rotates the schemas only after the restore
\* into the tmp schema and the migration of the tmp schema both completed
\* with no error, and Revert only after the backup schema was migrated
\* without error; when a preceding step reports an error no drop or rename
\* is issued and the live and backup schemas keep their names and contents
C35_RotateAfterCompleteSteps ==
  /\ [](rot.pc \notin {"off"} => pc \in {"rotate", "returned"} /\ MigratedThrough)
  /\ [][StepFails =>
          /\ rot'.pc = "off"
          /\ schemas' = schemas
          /\ Target \in {"live", "bak"} => rows' = startRows]_vars

\* the functions that return a plan
PlanFunctions == {"ToLastFrom", "ToFirstFrom", "DownTo", "FromTo", "From", "Between"}

\* p is strictly ascending by Version
StrictlyAscending(p) == \A i \in 1..(Len(p) - 1) : Compare(p[i].ver, p[i + 1].ver) < 0

\* p is strictly descending by Version
StrictlyDescending(p) == \A i \in 1..(Len(p) - 1) : Compare(p[i].ver, p[i + 1].ver) > 0

\* C36: every plan returned by ToLastFrom, ToFirstFrom, DownTo, FromTo, From
\* or Between has migrations of one direction only, no Version twice, and is
\* strictly ascending by Version when the direction is Up, strictly
\* descending when it is Down
C36_PlanOrderedOneDirection ==
  (pc = "resolved" /\ op.name \in PlanFunctions) =>
    /\ \A i, j \in 1..Len(plan) : plan[i].dir = plan[j].dir
    /\ \A i, j \in 1..Len(plan) : plan[i].ver = plan[j].ver => i = j
    /\ plan # <<>> => IF IsUp(plan[1]) THEN StrictlyAscending(plan)
                                       ELSE StrictlyDescending(plan)

\* ValidateBaseFiles was applied: files is the receiver, prevFiles the argument
ValidateReturned == pc = "resolved" /\ op.name = "ValidateBaseFiles"

\* position i of the receiver has the Version of prevFiles[i]
SameVersionAt(i) == Compare(prevFiles[i].ver, files[i].ver) = 0

\* ... and its Up file has the same content
SameContentAt(i) == prevFiles[i].up = files[i].up

\* the first position at which the receiver differs from prevFiles
FirstDifference ==
  CHOOSE i \in 1..Len(prevFiles) :
    /\ ~(SameVersionAt(i) /\ SameContentAt(i))
    /\ \A j \in 1..(i - 1) : SameVersionAt(j) /\ SameContentAt(j)

\* C37: ValidateBaseFiles(prevFiles) returns no error exactly when the
\* receiver is at least as long as prevFiles, is contiguous from 0/1, and has
\* at every position of prevFiles the same Version and the same Up-file
\* content; otherwise it returns an error: the length error first, then the
\* missing-version error, then at the first differing position the version
\* error before the content error
C37_ValidateBaseFilesExact ==
  ValidateReturned =>
    IF Len(files) < Len(prevFiles) THEN retErr = "length"
    ELSE IF ~Contiguous(V2, files) THEN retErr = "missing"
    ELSE IF \A i \in 1..Len(prevFiles) : SameVersionAt(i) /\ SameContentAt(i)
         THEN retErr = "ok"
         ELSE retErr = IF SameVersionAt(FirstDifference) THEN "content" ELSE "version"

\* C38: every MigrationFile of a collection returned by the scan has both
\* an Up file and a Down file: a Version claimed in one direction only is
\* not returned, so Migration.File is never nil for a migration of a plan
C38_BothDirectionsPresent ==
  (pc = "scanned" /\ retErr = "nil") =>
    \A i \in 1..Len(files) : files[i].up # NULL /\ files[i].down # NULL

\* a revert rotation has returned no error
RevertRotated == rot.pc = "done" /\ ~rot.err /\ rot.slots = RevertSlots

\* C39: a successful revert rotation drops the tmp schema and exchanges live
\* and backup: the name live refers to the schema named live_bak before, the
\* name live_bak to the schema named live before, and no schema is named
\* live_tmp; after two successful revert rotations in a row live and live_bak
\* refer to the schemas they referred to at first
C39_RevertRotationSwaps ==
  RevertRotated =>
    /\ rot.pre["live"] # 0
    /\ rot.pre["bak"] # 0
    /\ schemas["live"] = rot.pre["bak"]
    /\ schemas["bak"] = rot.pre["live"]
    /\ schemas["tmp"] = 0
    /\ (rot.n = 1 /\ rot.ok = 1) =>
         /\ schemas["live"] = rot.first["live"]
         /\ schemas["bak"] = rot.first["bak"]

\* the second of two successful revert rotations has returned; a tmp schema
\* existed before the first
C39_Witness ==
  /\ RevertRotated
  /\ rot.n = 1
  /\ rot.ok = 1
  /\ rot.first["tmp"] # 0
  /\ rot.first["live"] # rot.first["bak"]
  /\ rot.pre["live"] = rot.first["bak"]
  /\ schemas["live"] = rot.first["live"]

====
